---- MODULE Spec2Model ----
(***************************************************************************)
(* Task lifecycle of the inaiurai marketplace backend: credit escrow       *)
(* (services/escrow.go), task admission and worker callback                *)
(* (handlers/task_handler.go), dispatcher with deadline monitor and        *)
(* fallback (services/dispatcher.go), matching (services/matching.go),     *)
(* the repositories they write through, and the jobs path with its own     *)
(* ledger (jobs/, ledger/).                                                *)
(*                                                                         *)
(* Ten specifications share the variables:                                 *)
(*   SpecLedger  the three escrow operations applied to arbitrary accounts *)
(*               and amounts, as the escrow unit tests drive them;         *)
(*   Spec        one task from POST /v1/tasks to its terminal status, with *)
(*               every handler split at its database and HTTP calls;       *)
(*   SpecApi     the v1 routes for two accounts: concurrent POST /v1/tasks *)
(*               behind the budget middleware, and the two GETs;           *)
(*   SpecMatch   the matcher called on agent tables, as its tests do;      *)
(*   SpecJobs    the jobs path: POST /jobs, AssignAgent and its escrow     *)
(*               hold (jobs/handler.go, ledger/service.go);                *)
(*   SpecSettings the escrow operations next to the account settings       *)
(*               update (dashboard/handler.go);                            *)
(*   SpecForeign Spec for a task whose requester agent belongs to another  *)
(*               account than the caller;                                  *)
(*   SpecLocks   the order in which the escrow transactions take their     *)
(*               account row locks;                                        *)
(*   SpecRestart Spec with one restart of the process, under fair          *)
(*               scheduling of the goroutines;                             *)
(*   SpecExec    SpecJobs with the runs of the queued execution jobs and   *)
(*               the release or refund of the hold.                        *)
(*                                                                         *)
(* The database is modelled as far as the Go code relies on it: committed  *)
(* rows, SELECT ... FOR UPDATE row locks and transaction commit.  Column   *)
(* CHECK constraints and infrastructure failures are left out.  Amounts    *)
(* are Go ints far from overflow.                                          *)
(***************************************************************************)
EXTENDS Integers, Sequences, FiniteSets, TLC

VARIABLES
    balance,    \* accounts.credit_balance, committed value per account
    ledger,     \* credit_ledger rows in commit order
    esc,        \* SpecLedger: per task, the escrow the driver opened
    lk,         \* SpecLedger: per locker, its LockCredits call in progress
    lastErr,    \* SpecLedger: per locker, the error its last LockCredits returned
    row,        \* Spec: the tasks row of the task, <<>> before TaskRepo.Create
    hpc,        \* Spec: position of the CreateTask handler
    hreq,       \* Spec: the decoded createTaskRequest
    ctxDone,    \* Spec: the request context of POST /v1/tasks is cancelled
    dpc,        \* Spec: position of the dispatcher goroutine
    dtask,      \* Spec: the *models.Task the dispatcher goroutine holds
    dworker,    \* Spec: the worker of the current attempt / the failed worker
    dctx,       \* Spec: the context the dispatcher goroutine runs under
    cb,         \* Spec: per callback request, the SubmitResult handler state
    posts,      \* Spec: the dispatch POSTs sent so far: worker, answered 200 or not
    wasTerminal,\* Spec: the row has held status completed or failed
    late,       \* Spec: per accepted callback / deadline firing, wasTerminal when it began
    initBal,    \* the balances the accounts were seeded with
    breq,       \* SpecApi: per POST /v1/tasks request, the middleware and handler state
    tasks,      \* SpecApi: the tasks table, rows in insertion order
    got,        \* SpecApi: the GET responses served so far
    mq,         \* SpecMatch: the matcher's inputs and what it returned
    su,         \* SpecSettings: per PATCH /api/v1/account/settings request, its state
    jobs,       \* SpecJobs: the jobs table, one row per POST /jobs request
    accounts,   \* SpecJobs: balance_cents and hold_cents of the accounts table
    transactions, \* SpecJobs: the transactions table
    escrow_holds, \* SpecJobs: the escrow_holds table
    river_job,  \* SpecJobs: the execution jobs River has queued
    jreq,       \* SpecJobs: per POST /jobs request, the handler and its transaction
    ltx,        \* SpecLocks: per database transaction, the account rows it locks
    restarted,  \* SpecRestart: the API process has been restarted
    work        \* SpecExec: per job, the runs of its queued execution job

ledgerVars == <<esc, lk, lastErr>>
taskVars   == <<row, hpc, hreq, ctxDone, dpc, dtask, dworker, dctx, cb, posts, wasTerminal,
                late>>
apiVars    == <<breq, tasks, got>>
matchVars  == <<mq>>
settingsVars == <<su>>
jobVars    == <<jobs, accounts, transactions, escrow_holds, river_job, jreq>>
lockVars   == <<ltx>>
procVars   == <<restarted>>
execVars   == <<work>>
sideVars   == <<matchVars, jobVars, settingsVars, lockVars, procVars, execVars>>
vars       == <<balance, ledger, initBal, esc, lk, lastErr, row, hpc, hreq, ctxDone, dpc,
                dtask, dworker, dctx, cb, posts, wasTerminal, late, breq, tasks, got, mq,
                su, jobs, accounts, transactions, escrow_holds, river_job, jreq, ltx, restarted,
                work>>

----------------------------------------------------------------------------
(* Bounds of the model.                                                    *)

MaxAmount == 11      \* SpecLedger: largest budget and largest initial balance
MaxBudget == 3       \* Spec: largest budget of the task

(* Program constants.                                                      *)

FeePercent == 10     \* escrow.go: platformFee := actualCost * 10 / 100
FeeBase    == 100
maxRetries == 2      \* dispatcher.go: maxRetries = 2

----------------------------------------------------------------------------
(* Accounts and ledger entry kinds (models/account.go, credit_ledger.go).  *)

SystemPlatformAccountID == "acc0"
Accounts == {"acc0", "acc1", "acc2", "acc3"}

CreditEntryEscrowLock    == "escrow_lock"
CreditEntryEscrowRelease == "escrow_release"
CreditEntryTaskEarning   == "task_earning"
CreditEntryPlatformFee   == "platform_fee"
CreditEntryRefund        == "refund"

(* Go's integer division truncates toward zero.                            *)
TruncDiv(a, b) == IF a >= 0 THEN a \div b ELSE -((-a) \div b)

(* The store a transaction works on: balances and ledger rows.             *)
Store(b, l) == [bal |-> b, led |-> l]

CreditLedger(acct, task, kind, amt, bal) ==
    [account |-> acct, task |-> task, kind |-> kind, amount |-> amt, balanceAfter |-> bal]

(* AccountRepo.AddCredits followed by CreditRepo.CreateTx with the balance  *)
(* the UPDATE returned.                                                    *)
AddCredits(db, id, amount) == [db EXCEPT !.bal[id] = @ + amount]

CreateTx(db, entry) == [db EXCEPT !.led = Append(@, entry)]

Credit(db, id, task, kind, amount) ==
    LET d1 == AddCredits(db, id, amount)
    IN  CreateTx(d1, CreditLedger(id, task, kind, amount, d1.bal[id]))

(* LockCredits line 47: the balance check on the row read FOR UPDATE.      *)
InsufficientMut(creditBalance, amount) == FALSE

Insufficient(creditBalance, amount) == creditBalance < amount

(* AccountRepo.DeductCredits: UPDATE ... WHERE credit_balance >= $1.       *)
DeductCredits(db, id, amount) ==
    IF db.bal[id] >= amount
    THEN [ok |-> TRUE,  db |-> [db EXCEPT !.bal[id] = @ - amount]]
    ELSE [ok |-> FALSE, db |-> db]

(* EscrowService.LockCredits on the row `seen` that GetByIDForUpdate read. *)
LockCredits(db, seen, accountID, taskID, amount) ==
    IF Insufficient(seen, amount)
    THEN [err |-> "ErrInsufficientFunds", db |-> db]
    ELSE LET d == DeductCredits(db, accountID, amount)
         IN  IF ~d.ok
             THEN [err |-> "ErrNoRows", db |-> db]
             ELSE [err |-> "nil",
                   db  |-> CreateTx(d.db, CreditLedger(accountID, taskID, CreditEntryEscrowLock,
                                                       amount, d.db.bal[accountID]))]

PlatformFeeMut(actualCost) == TruncDiv(actualCost * FeePercent + FeeBase - 1, FeeBase)

PlatformFee(actualCost) == TruncDiv(actualCost * FeePercent, FeeBase)

(* EscrowService.SettleTask.                                               *)
SettleTask(db, taskID, requesterID, workerID, budget, actualCost) ==
    LET platformFee   == PlatformFee(actualCost)
        workerEarning == actualCost - platformFee
        remainder     == IF budget - actualCost < 0 THEN 0 ELSE budget - actualCost
        d1 == Credit(db, workerID, taskID, CreditEntryTaskEarning, workerEarning)
        d2 == Credit(d1, SystemPlatformAccountID, taskID, CreditEntryPlatformFee, platformFee)
    IN  IF remainder > 0
        THEN Credit(d2, requesterID, taskID, CreditEntryEscrowRelease, remainder)
        ELSE d2

(* EscrowService.SettleError and RefundFailed.                             *)
SettleError(db, taskID, requesterID, budget) ==
    IF budget <= 0 THEN db
    ELSE Credit(db, requesterID, taskID, CreditEntryRefund, budget)

RefundFailed(db, taskID, requesterID, budget) == SettleError(db, taskID, requesterID, budget)

(* The rows SettleTask and SettleError lock with GetByIDForUpdate.         *)
SettleLocks(requesterID, workerID) == {requesterID, workerID, SystemPlatformAccountID}

----------------------------------------------------------------------------
(* Helpers over the ledger.                                                *)

RECURSIVE SumSeq(_)
SumSeq(s) == IF s = <<>> THEN 0 ELSE Head(s) + SumSeq(Tail(s))

RECURSIVE SumOver(_, _)
SumOver(S, f) == IF S = {} THEN 0
                 ELSE LET x == CHOOSE y \in S : TRUE IN f[x] + SumOver(S \ {x}, f)

EntriesOf(led, task) == SelectSeq(led, LAMBDA e : e.task = task)
KindsOf(led, task)   == [i \in 1..Len(EntriesOf(led, task)) |-> EntriesOf(led, task)[i].kind]
CountKind(led, task, kind) == Len(SelectSeq(led, LAMBDA e : e.task = task /\ e.kind = kind))
AmountOfKind(led, task, kind) ==
    SumSeq([i \in 1..Len(SelectSeq(led, LAMBDA e : e.task = task /\ e.kind = kind))
              |-> SelectSeq(led, LAMBDA e : e.task = task /\ e.kind = kind)[i].amount])

TotalBalance == SumOver(Accounts, balance)
InitialTotal == SumOver(Accounts, initBal)

----------------------------------------------------------------------------
(* SpecLedger: the escrow operations driven directly, as escrow_test.go    *)
(* drives them, on arbitrary accounts and amounts.  LockCredits is split   *)
(* at its GetByIDForUpdate so that two locks on one account interleave;    *)
(* the row lock (SELECT ... FOR UPDATE) is held until the call commits.    *)

LTasks    == {"t1", "t2"}
Lockers   == {"p1", "p2"}
LAccounts == {"acc0", "acc1", "acc2"}
LedgerBalances == {1, MaxAmount}
LedgerAmounts  == {1, MaxAmount}
LedgerCosts    == {1, MaxAmount - 1, MaxAmount, MaxAmount + 1}

NoEscrow == [state |-> "none", account |-> "none", budget |-> 0, worker |-> "none", cost |-> 0]
LkIdle   == [pc |-> "idle", account |-> "none", task |-> "none", amount |-> 0, seen |-> 0]

(* The rows some LockCredits call holds FOR UPDATE.                        *)
LRowLocked(a) == \E p \in Lockers : lk[p].pc = "locked" /\ lk[p].account = a

InitTaskIdle ==
    /\ row = <<>> /\ hpc = "idle" /\ hreq = <<>> /\ ctxDone = FALSE
    /\ dpc = "idle" /\ dtask = <<>> /\ dworker = "none" /\ dctx = "none"
    /\ cb = <<>> /\ posts = <<>> /\ wasTerminal = FALSE /\ late = <<>>

InitApiIdle == breq = <<>> /\ tasks = <<>> /\ got = <<>>

InitMatchIdle == mq = <<>>

InitSettingsIdle == su = <<>>

InitLocksIdle == ltx = <<>>

InitProcIdle == restarted = FALSE

InitExecIdle == work = <<>>

InitJobsIdle ==
    /\ jobs = <<>> /\ accounts = <<>> /\ transactions = <<>> /\ escrow_holds = <<>>
    /\ river_job = <<>> /\ jreq = <<>>

InitLedger ==
    /\ initBal \in {b \in [Accounts -> LedgerBalances \cup {0}] :
                       /\ b[SystemPlatformAccountID] = 0 /\ b["acc3"] = 0
                       /\ b["acc1"] \in LedgerBalances /\ b["acc2"] \in LedgerBalances}
    /\ balance = initBal
    /\ ledger = <<>>
    /\ esc = [t \in LTasks |-> NoEscrow]
    /\ lk = [p \in Lockers |-> LkIdle]
    /\ lastErr = [p \in Lockers |-> "none"]
    /\ InitTaskIdle /\ InitApiIdle /\ InitMatchIdle /\ InitSettingsIdle /\ InitJobsIdle
    /\ InitLocksIdle /\ InitProcIdle /\ InitExecIdle

(* GetByIDForUpdate of LockCredits: wait for the row lock, read the row.   *)
LockBegin(p, a, t, amount) ==
    /\ lk[p].pc = "idle"
    /\ esc[t].state = "none"
    /\ \A q \in Lockers : lk[q].task # t
    /\ ~LRowLocked(a)
    /\ lk' = [lk EXCEPT ![p] = [pc |-> "locked", account |-> a, task |-> t,
                                 amount |-> amount, seen |-> balance[a]]]
    /\ UNCHANGED <<balance, ledger, initBal, esc, lastErr, taskVars, apiVars, sideVars>>

(* The rest of LockCredits and the commit of its transaction.              *)
LockFinish(p) ==
    /\ lk[p].pc = "locked"
    /\ LET r == LockCredits(Store(balance, ledger), lk[p].seen, lk[p].account,
                            lk[p].task, lk[p].amount)
       IN  /\ balance' = r.db.bal
           /\ ledger' = r.db.led
           /\ lastErr' = [lastErr EXCEPT ![p] = r.err]
           /\ esc' = IF r.err = "nil"
                     THEN [esc EXCEPT ![lk[p].task] =
                             [state |-> "locked", account |-> lk[p].account,
                              budget |-> lk[p].amount, worker |-> "none", cost |-> 0]]
                     ELSE esc
    /\ lk' = [lk EXCEPT ![p] = LkIdle]
    /\ UNCHANGED <<initBal, taskVars, apiVars, sideVars>>

(* SettleTask on a locked task, in one transaction.                        *)
LSettle(t, w, actualCost) ==
    /\ esc[t].state = "locked"
    /\ \A a \in SettleLocks(esc[t].account, w) : ~LRowLocked(a)
    /\ LET d == SettleTask(Store(balance, ledger), t, esc[t].account, w,
                           esc[t].budget, actualCost)
       IN  balance' = d.bal /\ ledger' = d.led
    /\ esc' = [esc EXCEPT ![t].state = "settled", ![t].worker = w, ![t].cost = actualCost]
    /\ UNCHANGED <<initBal, lk, lastErr, taskVars, apiVars, sideVars>>

(* RefundFailed on a locked task, in one transaction.                      *)
LRefund(t) ==
    /\ esc[t].state = "locked"
    /\ ~LRowLocked(esc[t].account)
    /\ LET d == RefundFailed(Store(balance, ledger), t, esc[t].account, esc[t].budget)
       IN  balance' = d.bal /\ ledger' = d.led
    /\ esc' = [esc EXCEPT ![t].state = "refunded"]
    /\ UNCHANGED <<initBal, lk, lastErr, taskVars, apiVars, sideVars>>

NextLedger ==
    \/ \E p \in Lockers, a \in LAccounts, t \in LTasks, m \in LedgerAmounts :
          LockBegin(p, a, t, m)
    \/ \E p \in Lockers : LockFinish(p)
    \/ \E t \in LTasks, w \in LAccounts, c \in LedgerCosts : LSettle(t, w, c)
    \/ \E t \in LTasks : LRefund(t)

SpecLedger == InitLedger /\ [][NextLedger]_vars

(* Credits the open escrows hold.                                          *)
HeldInEscrow == SumOver({t \in LTasks : esc[t].state = "locked"},
                        [t \in LTasks |-> esc[t].budget])

(* signedAmount of escrow_test.go: a lock counts negative.                 *)
signedAmount(e) == IF e.kind = CreditEntryEscrowLock THEN -e.amount ELSE e.amount

LedgerSum(led, a) ==
    SumSeq([i \in 1..Len(SelectSeq(led, LAMBDA e : e.account = a))
              |-> signedAmount(SelectSeq(led, LAMBDA e : e.account = a)[i])])

(* The entries of one kind a task has, as <<account, amount>> pairs.        *)
Moves(led, task, kind) ==
    [i \in 1..Len(SelectSeq(led, LAMBDA e : e.task = task /\ e.kind = kind)) |->
        <<SelectSeq(led, LAMBDA e : e.task = task /\ e.kind = kind)[i].account,
          SelectSeq(led, LAMBDA e : e.task = task /\ e.kind = kind)[i].amount>>]

----------------------------------------------------------------------------
(* Agents, tasks and the tasks row (models/agent.go, models/task.go,       *)
(* repository/task_repo.go).                                               *)

TaskStatusMatching   == "matching"
TaskStatusDispatched == "dispatched"
TaskStatusInProgress == "in_progress"
TaskStatusCompleted  == "completed"
TaskStatusFailed     == "failed"
TerminalStatuses     == {TaskStatusCompleted, TaskStatusFailed}

TaskOutputStatusSuccess == "success"
TaskOutputStatusPartial == "partial"
TaskOutputStatusError   == "error"

RoutingFastest  == "fastest"
RoutingCheapest == "cheapest"
RoutingAuto     == "auto"

Null    == <<>>          \* a nil pointer / SQL NULL
Some(v) == <<v>>

TheTask        == "task"        \* the id of the one task Spec follows
TaskCapability == "summarize"   \* its capability_required

(* The agents table, in the order FindAvailableWorkers returns its rows    *)
(* (ORDER BY created_at DESC).  ra is the first agent of the requesting    *)
(* account acc1; w1 and w2 are workers of accounts acc2 and acc3.          *)
Caps(prices) == [null |-> FALSE, price |-> prices]
NullCaps     == [null |-> TRUE,  price |-> [c \in {} |-> 0]]

AgentRow(id, account, role, availability, caps, compliance, avgMs) ==
    [id |-> id, account |-> account, role |-> role, availability |-> availability,
     caps |-> caps, compliance |-> compliance, avgMs |-> avgMs]

AgentRows ==
    << AgentRow("w2", "acc3", "worker", "online", Caps([summarize |-> 3]), Null, Some(100)),
       AgentRow("w1", "acc2", "both", "online", Caps([summarize |-> 2]), Some(90), Some(200)),
       AgentRow("ra", "acc1", "requester", "online", NullCaps, Null, Null) >>

AgentIds == {AgentRows[i].id : i \in 1..Len(AgentRows)}

IsSystemAccount(a) == a = SystemPlatformAccountID

(* AgentRepo.GetByID(...).AccountID, as resolveAccountID uses it.          *)
resolveAccountID(agentID) ==
    AgentRows[CHOOSE i \in 1..Len(AgentRows) : AgentRows[i].id = agentID].account

(* TaskRepo.Update / Create write every column of the struct; the struct's *)
(* RoutingPreference has no column.  TaskRepo.GetByID reads them back.     *)
RowOf(t) == [requester |-> t.requester, worker |-> t.worker, status |-> t.status,
             budget |-> t.budget, outputStatus |-> t.outputStatus, hasOutput |-> t.hasOutput,
             actualCost |-> t.actualCost, platformFee |-> t.platformFee,
             deadline |-> t.deadline, retry |-> t.retry]

TaskOf(r) == [requester |-> r.requester, worker |-> r.worker, status |-> r.status,
              budget |-> r.budget, outputStatus |-> r.outputStatus, hasOutput |-> r.hasOutput,
              actualCost |-> r.actualCost, platformFee |-> r.platformFee,
              deadline |-> r.deadline, retry |-> r.retry, pref |-> ""]

----------------------------------------------------------------------------
(* Matching (services/matching.go, AgentRepo.FindAvailableWorkers).        *)

(* defaultPriceByCapability[capability]; a missing key reads as 0.         *)
defaultPriceByCapability(capability) ==
    CASE capability = "Research"        -> 8
      [] capability = "Summarize"       -> 3
      [] capability = "Data Extraction" -> 5
      [] OTHER                          -> 0

getPricingPerTask(capabilitiesOffered, capability) ==
    IF capabilitiesOffered.null
    THEN defaultPriceByCapability(capability)
    ELSE IF capability \in DOMAIN capabilitiesOffered.price
            /\ capabilitiesOffered.price[capability] > 0
         THEN capabilitiesOffered.price[capability]
         ELSE defaultPriceByCapability(capability)

FindAvailableWorkersMut(rows, capability) ==
    SelectSeq(rows, LAMBDA a :
        /\ a.role \in {"worker", "both"}
        /\ a.availability = "online"
        /\ (a.caps.null \/ capability \in DOMAIN a.caps.price))

FindAvailableWorkers(rows, capability) ==
    SelectSeq(rows, LAMBDA a :
        /\ ~IsSystemAccount(a.account)
        /\ a.role \in {"worker", "both"}
        /\ a.availability = "online"
        /\ (a.caps.null \/ capability \in DOMAIN a.caps.price))

(* One workerCandidate; schemaCompliance is kept in percent (capped at 1.0 *)
(* = 100), successRate and reputation are the constant 0.5 of the code.    *)
workerCandidate(ag, capability) ==
    [agent            |-> ag.id,
     pricingPerTask   |-> getPricingPerTask(ag.caps, capability),
     schemaCompliance |-> IF ag.compliance = Null THEN 0
                          ELSE IF ag.compliance[1] > 100 THEN 100 ELSE ag.compliance[1],
     avgResponseMs    |-> IF ag.avgMs = Null THEN 0 ELSE ag.avgMs[1]]

buildCandidatesMut(workers, capability, budget, excludeID) ==
    LET kept == SelectSeq(workers, LAMBDA ag : ag.id # excludeID)
    IN  [i \in 1..Len(kept) |-> workerCandidate(kept[i], capability)]

buildCandidates(workers, capability, budget, excludeID) ==
    LET kept == SelectSeq(workers, LAMBDA ag :
                    /\ ag.id # excludeID
                    /\ getPricingPerTask(ag.caps, capability) <= budget)
    IN  [i \in 1..Len(kept) |-> workerCandidate(kept[i], capability)]

routingPreference(p) ==
    IF p = "" THEN RoutingAuto
    ELSE IF p \notin {RoutingFastest, RoutingCheapest, RoutingAuto} THEN RoutingAuto
    ELSE p

MaxOf(S) == IF S = {} THEN 0 ELSE CHOOSE m \in S : \A x \in S : x <= m

(* scores[i] of the "auto" branch, times 10000 * maxMs * maxPrice so that  *)
(* it stays an integer: 0.20 compliance + 0.25 * 0.5 + 0.25 * 0.5          *)
(* + 0.15 speedNorm + 0.15 priceNorm.                                      *)
autoScores(c) ==
    LET ms0    == MaxOf({c[i].avgResponseMs : i \in 1..Len(c)})
        maxMs  == IF ms0 <= 0 THEN 1 ELSE ms0
        pr0    == MaxOf({c[i].pricingPerTask : i \in 1..Len(c)})
        maxPrice == IF pr0 <= 0 THEN 1 ELSE pr0
    IN  [i \in 1..Len(c) |->
            20 * c[i].schemaCompliance * maxMs * maxPrice
          + 2500 * maxMs * maxPrice
          + 1500 * (maxMs - c[i].avgResponseMs) * maxPrice
          + 1500 * (maxPrice - c[i].pricingPerTask) * maxMs]

(* The less(i, j) closure handed to sort.Slice: the first two read the     *)
(* slice as it is being sorted; the "auto" one reads scores[], which is    *)
(* indexed by the positions before sorting.                                *)
lessMut(pref, scores, c, i, j) ==
    CASE pref = RoutingFastest  -> c[i].avgResponseMs > c[j].avgResponseMs
      [] pref = RoutingCheapest -> c[i].pricingPerTask > c[j].pricingPerTask
      [] OTHER                  -> scores[i] > scores[j]

less(pref, scores, c, i, j) ==
    CASE pref = RoutingFastest  -> c[i].avgResponseMs < c[j].avgResponseMs
      [] pref = RoutingCheapest -> c[i].pricingPerTask < c[j].pricingPerTask
      [] OTHER                  -> scores[i] > scores[j]

Swap(c, i, j) == [c EXCEPT ![i] = c[j], ![j] = c[i]]

(* sort.Slice on at most 12 elements is an insertion sort.                 *)
RECURSIVE siftDown(_, _, _, _)
siftDown(pref, scores, c, j) ==
    IF j > 1 /\ less(pref, scores, c, j, j - 1)
    THEN siftDown(pref, scores, Swap(c, j, j - 1), j - 1)
    ELSE c

RECURSIVE insertionSort(_, _, _, _)
insertionSort(pref, scores, c, i) ==
    IF i > Len(c) THEN c
    ELSE insertionSort(pref, scores, siftDown(pref, scores, c, i), i + 1)

scoreAndSort(candidates, p) ==
    insertionSort(routingPreference(p), autoScores(candidates), candidates, 2)

(* FindBestWorker: the id of the best candidate, or "none" for nil.        *)
FindBestWorker(rows, capability, budget, p) ==
    LET candidates == buildCandidates(FindAvailableWorkers(rows, capability),
                                      capability, budget, "none")
    IN  IF Len(candidates) = 0 THEN "none"
        ELSE scoreAndSort(candidates, p)[1].agent

(* FindFallbacks: the ids of up to two candidates other than excludeAgentID. *)
FindFallbacks(rows, capability, budget, p, excludeAgentID) ==
    LET candidates == buildCandidates(FindAvailableWorkers(rows, capability),
                                      capability, budget, excludeAgentID)
        sorted     == scoreAndSort(candidates, p)
        max        == IF Len(candidates) < 2 THEN Len(candidates) ELSE 2
    IN  [i \in 1..max |-> sorted[i].agent]

(* sort.Slice "is not guaranteed to be stable": a slice of more than 12    *)
(* elements is partitioned around pivots, which moves elements past        *)
(* others that compare equal.  The ids that may fill the first n (1 or 2)  *)
(* places of such a slice after the sort: under fastest and cheapest any   *)
(* candidates that no remaining candidate is less than; under "auto",      *)
(* whose less reads scores[] by position, any candidates.                  *)
sortSliceHeads(pref, c, n) ==
    LET I        == 1..Len(c)
        lt(i, j) == pref # RoutingAuto /\ less(pref, <<>>, c, i, j)
        first(S) == {i \in S : \A j \in S : ~lt(j, i)}
    IN  IF n = 1 THEN {<<c[i].agent>> : i \in first(I)}
        ELSE {<<c[q[1]].agent, c[q[2]].agent>> :
                 q \in {r \in I \X I : r[1] \in first(I) /\ r[2] \in first(I \ {r[1]})}}

(* What FindBestWorker may return: one id up to 12 candidates, and above   *)
(* that the head of any outcome of the unstable sort.                      *)
FindBestWorkerResults(rows, capability, budget, p) ==
    LET candidates == buildCandidates(FindAvailableWorkers(rows, capability),
                                      capability, budget, "none")
    IN  IF Len(candidates) <= 12
        THEN {FindBestWorker(rows, capability, budget, p)}
        ELSE {h[1] : h \in sortSliceHeads(routingPreference(p), candidates, 1)}

(* What FindFallbacks may return.                                          *)
FindFallbacksResults(rows, capability, budget, p, excludeAgentID) ==
    LET candidates == buildCandidates(FindAvailableWorkers(rows, capability),
                                      capability, budget, excludeAgentID)
    IN  IF Len(candidates) <= 12
        THEN {FindFallbacks(rows, capability, budget, p, excludeAgentID)}
        ELSE sortSliceHeads(routingPreference(p), candidates, 2)

----------------------------------------------------------------------------
(* Spec: one task.  The authenticated account of POST /v1/tasks is acc1;   *)
(* the body names the requester agent, the budget and the routing          *)
(* preference.  Every handler and goroutine is split at its database and   *)
(* HTTP calls; TaskRepo writes go through the pool and are visible at      *)
(* once, ledger writes become visible when their transaction commits.      *)

Principal      == "acc1"
ReqAgents      == {"ra"}
Budgets        == 0..(MaxBudget + 1)
Prefs          == {"", RoutingFastest}
Callers        == {"c1", "c2"}
CallbackAgents == {"w1", "w2"}
Monitor        == "monitor"
PostOutcomes   == {200, 202, 0}      \* 0: the POST returned an error

(* Input payloads of POST /v1/tasks: a document the capability's input     *)
(* schema accepts, one it rejects, and no payload at all.                  *)
Payload(present, conforms) == [present |-> present, conforms |-> conforms]
Inputs == {Payload(TRUE, TRUE), Payload(TRUE, FALSE), Payload(FALSE, FALSE)}

(* Bodies of POST /v1/tasks/{id}/result.                                   *)
Result(outputStatus, actualCost) == [outputStatus |-> outputStatus, actualCost |-> actualCost]
Results == { Result("", 0), Result(TaskOutputStatusPartial, MaxBudget + 1),
             Result(TaskOutputStatusError, 0), Result("bogus", 0) }

(* A SubmitResult request: its position, the authenticated agent, the     *)
(* status it was accepted in, the response code and the *models.Task held. *)
CbIdle == [pc |-> "idle", agent |-> "none", path |-> <<>>, seen |-> "", resp |-> 0,
           task |-> Null]

Row   == row[1]
DTask == dtask[1]
HReq  == hreq[1]

Init ==
    /\ initBal = [a \in Accounts |-> IF a = Principal THEN MaxBudget ELSE 0]
    /\ balance = initBal
    /\ ledger = <<>>
    /\ esc = <<>> /\ lk = <<>> /\ lastErr = <<>>
    /\ row = Null /\ hpc = "idle" /\ hreq = Null /\ ctxDone = FALSE
    /\ dpc = "idle" /\ dtask = Null /\ dworker = "none" /\ dctx = "none"
    /\ cb = [c \in Callers |-> CbIdle]
    /\ posts = <<>>
    /\ wasTerminal = FALSE
    /\ late = [x \in Callers \cup {Monitor} |-> FALSE]
    /\ InitApiIdle /\ InitMatchIdle /\ InitSettingsIdle /\ InitJobsIdle
    /\ InitLocksIdle /\ InitProcIdle /\ InitExecIdle

(* The account rows held FOR UPDATE by an open transaction.                *)
CbLocks(c) ==
    IF cb[c].pc # "commit" THEN {}
    ELSE IF cb[c].task[1].status = TaskStatusCompleted
         THEN SettleLocks(resolveAccountID(cb[c].task[1].requester),
                          resolveAccountID(cb[c].task[1].worker))
         ELSE {resolveAccountID(cb[c].task[1].requester)}

RowLocked(a) ==
    \/ hpc \in {"locked", "created"} /\ a = Principal
    \/ \E c \in Callers : a \in CbLocks(c)

----------------------------------------------------------------------------
(* TaskHandler.CreateTask.                                                 *)

createTaskRequest(requester, budget, pref, input) ==
    [requester |-> requester, budget |-> budget, pref |-> pref, input |-> input, resp |-> 0]

(* Validator.inputSchemas: one compiled input schema per capability file.  *)
inputSchemas == {"research", "summarize", "data_extraction"}

(* Validator.ValidateInput: the error it returns, "nil" for none.  The     *)
(* payload is absent (json.Unmarshal fails on it), or a JSON document the  *)
(* compiled schema accepts or rejects.                                     *)
ValidateInputMut(capability, input) == "nil"

ValidateInput(capability, input) ==
    IF capability \notin inputSchemas THEN "unknown capability"
    ELSE IF ~input.present THEN "invalid JSON"
    ELSE IF ~input.conforms THEN "ErrValidation"
    ELSE "nil"

NewTask(req) ==
    [requester |-> req.requester, worker |-> "none", status |-> TaskStatusMatching,
     budget |-> req.budget, outputStatus |-> "", hasOutput |-> FALSE,
     actualCost |-> Null, platformFee |-> Null, deadline |-> FALSE, retry |-> 0,
     pref |-> req.pref]

(* Decode and check the body, validate the input payload, begin the        *)
(* transaction, LockCredits.                                               *)
H_Lock(requester, budget, pref, input) ==
    /\ hpc = "idle"
    /\ LET req == createTaskRequest(requester, budget, pref, input)
           v   == ValidateInput(TaskCapability, input)
           r   == LockCredits(Store(balance, ledger), balance[Principal], Principal,
                              TheTask, budget)
       IN  IF budget <= 0
           THEN hreq' = Some([req EXCEPT !.resp = 400]) /\ hpc' = "done"
           ELSE IF v = "ErrValidation"
           THEN hreq' = Some([req EXCEPT !.resp = 422]) /\ hpc' = "done"
           ELSE IF v # "nil"
           THEN hreq' = Some([req EXCEPT !.resp = 400]) /\ hpc' = "done"
           ELSE IF r.err = "ErrInsufficientFunds"
           THEN hreq' = Some([req EXCEPT !.resp = 402]) /\ hpc' = "done"
           ELSE hreq' = Some(req) /\ hpc' = "locked"
    /\ UNCHANGED <<balance, ledger, initBal, ledgerVars, apiVars, sideVars, row, ctxDone, dpc, dtask, dworker,
                   dctx, cb, posts, wasTerminal, late>>

(* TaskRepo.Create through the pool, with status matching.                 *)
H_Create ==
    /\ hpc = "locked"
    /\ row' = Some(RowOf(NewTask(HReq)))
    /\ hpc' = "created"
    /\ UNCHANGED <<balance, ledger, initBal, ledgerVars, apiVars, sideVars, hreq, ctxDone, dpc, dtask, dworker,
                   dctx, cb, posts, wasTerminal, late>>

(* tx.Commit, then go Dispatcher.DispatchTask(r.Context(), task).          *)
H_Commit ==
    /\ hpc = "created"
    /\ LET r == LockCredits(Store(balance, ledger), balance[Principal], Principal,
                            TheTask, HReq.budget)
       IN  balance' = r.db.bal /\ ledger' = r.db.led
    /\ hpc' = "respond"
    /\ dpc' = "match" /\ dtask' = Some(NewTask(HReq)) /\ dctx' = "request"
    /\ UNCHANGED <<initBal, ledgerVars, apiVars, sideVars, row, hreq, ctxDone, dworker, cb, posts,
                   wasTerminal, late>>

(* 202 Accepted; ServeHTTP returns and the request context is cancelled.   *)
H_Return ==
    /\ hpc = "respond"
    /\ hreq' = Some([HReq EXCEPT !.resp = 202])
    /\ hpc' = "done"
    /\ ctxDone' = TRUE
    /\ UNCHANGED <<balance, ledger, initBal, ledgerVars, apiVars, sideVars, row, dpc, dtask, dworker, dctx, cb,
                   posts, wasTerminal, late>>

----------------------------------------------------------------------------
(* Request paths, as their segments, and the routes of RegisterV1Routes.   *)

ResultPath(taskID) == <<"v1", "tasks", taskID, "result">>

(* dispatchPayload.CallbackURL: fmt.Sprintf("/v1/tasks/%s/callback", ID).  *)
CallbackURL(taskID) == <<"v1", "tasks", taskID, "callback">>

Route(method, pattern, handler) == [method |-> method, pattern |-> pattern, handler |-> handler]

Routes ==
    << Route("POST", <<"v1", "tasks">>, "CreateTask"),
       Route("POST", <<"v1", "tasks", "{id}", "result">>, "SubmitResult"),
       Route("GET",  <<"v1", "tasks", "{id}">>, "GetTask"),
       Route("GET",  <<"v1", "tasks">>, "listTasks") >>

(* A pattern matches a path of the same length; {id} matches any segment.  *)
Matches(pattern, path) ==
    /\ Len(pattern) = Len(path)
    /\ \A i \in 1..Len(pattern) : pattern[i] = "{id}" \/ pattern[i] = path[i]

(* http.ServeMux: the handler registered for method and path, if any.      *)
ServeMux(method, path) ==
    LET hits == {i \in 1..Len(Routes) :
                    Routes[i].method = method /\ Matches(Routes[i].pattern, path)}
    IN  IF hits = {} THEN "NotFound" ELSE Routes[CHOOSE i \in hits : TRUE].handler

(* The paths a worker posts its result to: the documented endpoint and the *)
(* callback_url of the dispatch payload.                                   *)
CallbackPaths == {ResultPath(TheTask), CallbackURL(TheTask)}

----------------------------------------------------------------------------
(* Dispatcher (services/dispatcher.go).  The goroutine started by          *)
(* CreateTask runs under the request context; a database or HTTP call made *)
(* after that context is cancelled returns an error.  monitorDeadline runs *)
(* under context.Background().                                             *)

CtxErr == dctx = "request" /\ ctxDone

DUnchanged == UNCHANGED <<initBal, ledgerVars, apiVars, sideVars, hpc, hreq, ctxDone, cb>>

(* DispatchTask: FindBestWorker, then failNoWorker or dispatchToWorker.    *)
DispatchTask ==
    /\ dpc = "match"
    /\ IF CtxErr
       THEN dpc' = "dead" /\ UNCHANGED dworker
       ELSE LET worker == FindBestWorker(AgentRows, TaskCapability, DTask.budget, DTask.pref)
            IN  IF worker = "none"
                THEN dpc' = "refundAndFail" /\ UNCHANGED dworker
                ELSE dpc' = "dispatchToWorker" /\ dworker' = worker
    /\ DUnchanged
    /\ UNCHANGED <<balance, ledger, row, dtask, dctx, posts, wasTerminal, late>>

(* dispatchToWorker up to its first TaskRepo.Update (status dispatched).   *)
dispatchToWorkerMut ==
    /\ dpc = "dispatchToWorker"
    /\ LET t == [DTask EXCEPT !.worker = dworker, !.status = TaskStatusDispatched]
       IN  IF CtxErr
           THEN dpc' = "dead" /\ UNCHANGED <<row, dtask>>
           ELSE dpc' = "post" /\ row' = Some(RowOf(t)) /\ dtask' = Some(t)
    /\ DUnchanged
    /\ UNCHANGED <<balance, ledger, dworker, dctx, posts, wasTerminal, late>>

dispatchToWorker ==
    /\ dpc = "dispatchToWorker"
    /\ LET t == [DTask EXCEPT !.worker = dworker, !.status = TaskStatusDispatched,
                              !.deadline = TRUE]
       IN  IF CtxErr
           THEN dpc' = "dead" /\ UNCHANGED <<row, dtask>>
           ELSE dpc' = "post" /\ row' = Some(RowOf(t)) /\ dtask' = Some(t)
    /\ DUnchanged
    /\ UNCHANGED <<balance, ledger, dworker, dctx, posts, wasTerminal, late>>

(* HTTPClient.Do: an error or a status other than 200 goes to               *)
(* dispatchWithFallback.                                                   *)
Post(outcome) ==
    /\ dpc = "post"
    /\ IF CtxErr
       THEN outcome = 0 /\ dpc' = "dispatchWithFallback" /\ UNCHANGED posts
       ELSE /\ posts' = Append(posts, [worker |-> dworker, ok |-> outcome = 200])
            /\ dpc' = IF outcome = 200 THEN "inProgress" ELSE "dispatchWithFallback"
    /\ DUnchanged
    /\ UNCHANGED <<balance, ledger, row, dtask, dworker, dctx, wasTerminal, late>>

(* TaskRepo.Update (status in_progress), then go monitorDeadline.          *)
MarkInProgress ==
    /\ dpc = "inProgress"
    /\ LET t == [DTask EXCEPT !.status = TaskStatusInProgress]
       IN  IF CtxErr
           THEN dpc' = "dead" /\ UNCHANGED <<row, dtask>>
           ELSE dpc' = "sleep" /\ row' = Some(RowOf(t)) /\ dtask' = Some(t)
    /\ DUnchanged
    /\ UNCHANGED <<balance, ledger, dworker, dctx, posts, wasTerminal, late>>

(* monitorDeadline wakes: GetByID, return unless the status is in_progress. *)
monitorDeadline ==
    /\ dpc = "sleep"
    /\ dctx' = "background"
    /\ dtask' = Some(TaskOf(Row))
    /\ late' = [late EXCEPT ![Monitor] = wasTerminal]
    /\ dpc' = IF Row.status # TaskStatusInProgress THEN "done" ELSE "deadlineExceeded"
    /\ DUnchanged
    /\ UNCHANGED <<balance, ledger, row, dworker, posts, wasTerminal>>

(* monitorDeadline marks the task failed, then calls dispatchWithFallback.  *)
MarkDeadlineFailed ==
    /\ dpc = "deadlineExceeded"
    /\ LET t == [DTask EXCEPT !.status = TaskStatusFailed,
                              !.outputStatus = TaskOutputStatusError]
       IN  row' = Some(RowOf(t)) /\ dtask' = Some(t)
    /\ wasTerminal' = TRUE
    /\ dpc' = "dispatchWithFallback"
    /\ DUnchanged
    /\ UNCHANGED <<balance, ledger, dworker, dctx, posts, late>>

(* dispatchWithFallback up to its TaskRepo.Update: RetryCount++, then       *)
(* either refundAndFail's Update (retries exhausted) or status matching.   *)
dispatchWithFallback ==
    /\ dpc = "dispatchWithFallback"
    /\ LET t1 == [DTask EXCEPT !.retry = @ + 1]
           exhausted == t1.retry > maxRetries
           t2 == IF exhausted
                 THEN [t1 EXCEPT !.status = TaskStatusFailed,
                                 !.outputStatus = TaskOutputStatusError]
                 ELSE [t1 EXCEPT !.status = TaskStatusMatching]
       IN  IF CtxErr
           THEN dpc' = "dead" /\ dtask' = Some(t1) /\ UNCHANGED <<row, wasTerminal>>
           ELSE /\ row' = Some(RowOf(t2)) /\ dtask' = Some(t2)
                /\ wasTerminal' = (wasTerminal \/ exhausted)
                /\ dpc' = IF exhausted THEN "refund" ELSE "findFallbacks"
    /\ DUnchanged
    /\ UNCHANGED <<balance, ledger, dworker, dctx, posts, late>>

(* FindFallbacks excluding the worker that just failed.                    *)
FindFallbacksStep ==
    /\ dpc = "findFallbacks"
    /\ IF CtxErr
       THEN dpc' = "dead" /\ UNCHANGED dworker
       ELSE LET fallbacks == FindFallbacks(AgentRows, TaskCapability, DTask.budget,
                                           DTask.pref, dworker)
            IN  IF Len(fallbacks) = 0
                THEN dpc' = "refundAndFail" /\ UNCHANGED dworker
                ELSE dpc' = "dispatchToWorker" /\ dworker' = fallbacks[1]
    /\ DUnchanged
    /\ UNCHANGED <<balance, ledger, row, dtask, dctx, posts, wasTerminal, late>>

(* refundAndFail up to its TaskRepo.Update (status failed).                *)
refundAndFail ==
    /\ dpc = "refundAndFail"
    /\ LET t == [DTask EXCEPT !.status = TaskStatusFailed,
                              !.outputStatus = TaskOutputStatusError]
       IN  IF CtxErr
           THEN dpc' = "dead" /\ UNCHANGED <<row, dtask, wasTerminal>>
           ELSE /\ dpc' = "refund" /\ row' = Some(RowOf(t)) /\ dtask' = Some(t)
                /\ wasTerminal' = TRUE
    /\ DUnchanged
    /\ UNCHANGED <<balance, ledger, dworker, dctx, posts, late>>

(* The rest of refundAndFail: resolve the requester agent's account, then  *)
(* RefundFailed in a transaction of its own.                               *)
RefundStep ==
    /\ dpc = "refund"
    /\ IF CtxErr
       THEN dpc' = "dead" /\ UNCHANGED <<balance, ledger>>
       ELSE /\ ~RowLocked(resolveAccountID(DTask.requester))
            /\ LET d == RefundFailed(Store(balance, ledger), TheTask,
                                     resolveAccountID(DTask.requester), DTask.budget)
               IN  balance' = d.bal /\ ledger' = d.led
            /\ dpc' = "done"
    /\ DUnchanged
    /\ UNCHANGED <<row, dtask, dworker, dctx, posts, wasTerminal, late>>

----------------------------------------------------------------------------
(* TaskHandler.SubmitResult (POST /v1/tasks/{id}/result).  A rejected      *)
(* request changes nothing, so the second request is followed only once    *)
(* the first has passed the handler's checks.                              *)

CbUnchanged == UNCHANGED <<initBal, ledgerVars, apiVars, sideVars, hpc, hreq, ctxDone, dpc, dtask, dworker, dctx,
                           posts>>

(* actualCost of the handler: a reported cost <= 0 is replaced by budget.  *)
effectiveCost(t) == IF t.actualCost[1] <= 0 THEN t.budget ELSE t.actualCost[1]

(* platformFee := actualCost * 10 / 100, as the handler stores it.         *)
taskPlatformFee(actualCost) == TruncDiv(actualCost * FeePercent, FeeBase)

(* callingAgent == nil || task.WorkerAgentID == nil ||                      *)
(* callingAgent.ID != *task.WorkerAgentID, negated.                        *)
callerIsAssignedWorkerMut(agent, worker) == TRUE

callerIsAssignedWorker(agent, worker) == worker # "none" /\ agent = worker

(* The mux routes the POST; then GetByID, the status check and the check   *)
(* of the calling agent.                                                   *)
SubmitResultRead(c, agent, path) ==
    /\ cb[c].pc = "idle"
    /\ c = "c2" => cb["c1"].task # Null
    /\ LET q == [cb[c] EXCEPT !.agent = agent, !.path = path]
       IN  IF ServeMux("POST", path) # "SubmitResult"
           THEN cb' = [cb EXCEPT ![c] = [q EXCEPT !.pc = "done", !.resp = 404]]
           ELSE IF row = Null
           THEN cb' = [cb EXCEPT ![c] = [q EXCEPT !.pc = "done", !.resp = 404]]
           ELSE IF Row.status \notin {TaskStatusInProgress, TaskStatusDispatched}
           THEN cb' = [cb EXCEPT ![c] = [q EXCEPT !.pc = "done", !.resp = 409]]
           ELSE IF ~callerIsAssignedWorker(agent, Row.worker)
           THEN cb' = [cb EXCEPT ![c] = [q EXCEPT !.pc = "done", !.resp = 403]]
           ELSE cb' = [cb EXCEPT ![c] = [q EXCEPT !.pc = "settle", !.seen = Row.status,
                                                    !.task = Some(TaskOf(Row))]]
    /\ late' = [late EXCEPT ![c] = wasTerminal /\ cb'[c].pc = "settle"]
    /\ CbUnchanged
    /\ UNCHANGED <<balance, ledger, row, wasTerminal>>

(* Decode the body, run SettleTask or RefundFailed inside the transaction  *)
(* (taking the account rows FOR UPDATE), then TaskRepo.Update through the  *)
(* pool.                                                                   *)
SubmitResultSettle(c, req) ==
    /\ cb[c].pc = "settle"
    /\ LET outputStatus == IF req.outputStatus = "" THEN TaskOutputStatusSuccess
                           ELSE req.outputStatus
           t1 == [cb[c].task[1] EXCEPT !.hasOutput = TRUE, !.outputStatus = outputStatus,
                                       !.actualCost = Some(req.actualCost)]
           requesterAccount == resolveAccountID(t1.requester)
       IN  CASE outputStatus \in {TaskOutputStatusSuccess, TaskOutputStatusPartial} ->
                  LET t2 == [t1 EXCEPT !.platformFee = Some(taskPlatformFee(effectiveCost(t1))),
                                       !.status = TaskStatusCompleted]
                  IN  /\ \A a \in SettleLocks(requesterAccount, resolveAccountID(t1.worker)) :
                             ~RowLocked(a)
                      /\ row' = Some(RowOf(t2))
                      /\ cb' = [cb EXCEPT ![c] = [@ EXCEPT !.pc = "commit", !.task = Some(t2)]]
                      /\ wasTerminal' = TRUE
             [] outputStatus = TaskOutputStatusError ->
                  LET t2 == [t1 EXCEPT !.status = TaskStatusFailed]
                  IN  /\ ~RowLocked(requesterAccount)
                      /\ row' = Some(RowOf(t2))
                      /\ cb' = [cb EXCEPT ![c] = [@ EXCEPT !.pc = "commit", !.task = Some(t2)]]
                      /\ wasTerminal' = TRUE
             [] OTHER ->
                  /\ cb' = [cb EXCEPT ![c] = [@ EXCEPT !.pc = "done", !.resp = 400,
                                                        !.task = Some(t1)]]
                  /\ UNCHANGED <<row, wasTerminal>>
    /\ CbUnchanged
    /\ UNCHANGED <<balance, ledger, late>>

(* tx.Commit: the settlement or the refund becomes visible; 200 OK.        *)
SubmitResultCommit(c) ==
    /\ cb[c].pc = "commit"
    /\ LET t == cb[c].task[1]
           d == IF t.status = TaskStatusCompleted
                THEN SettleTask(Store(balance, ledger), TheTask, resolveAccountID(t.requester),
                                resolveAccountID(t.worker), t.budget, effectiveCost(t))
                ELSE RefundFailed(Store(balance, ledger), TheTask,
                                  resolveAccountID(t.requester), t.budget)
       IN  balance' = d.bal /\ ledger' = d.led
    /\ cb' = [cb EXCEPT ![c] = [@ EXCEPT !.pc = "done", !.resp = 200]]
    /\ CbUnchanged
    /\ UNCHANGED <<row, wasTerminal, late>>

----------------------------------------------------------------------------
Next ==
    \/ \E requester \in ReqAgents, budget \in Budgets, pref \in Prefs, input \in Inputs :
          H_Lock(requester, budget, pref, input)
    \/ H_Create
    \/ H_Commit
    \/ H_Return
    \/ DispatchTask
    \/ dispatchToWorker
    \/ \E outcome \in PostOutcomes : Post(outcome)
    \/ MarkInProgress
    \/ monitorDeadline
    \/ MarkDeadlineFailed
    \/ dispatchWithFallback
    \/ FindFallbacksStep
    \/ refundAndFail
    \/ RefundStep
    \/ \E c \in Callers, agent \in CallbackAgents, path \in CallbackPaths :
          SubmitResultRead(c, agent, path)
    \/ \E c \in Callers, req \in Results : SubmitResultSettle(c, req)
    \/ \E c \in Callers : SubmitResultCommit(c)

Spec == Init /\ [][Next]_vars

----------------------------------------------------------------------------
(* SpecApi: the routes of RegisterV1Routes for several requests at once:   *)
(* POST /v1/tasks behind APIKeyAuth and BudgetCheck, GET /v1/tasks/{id}    *)
(* and GET /v1/tasks.  All requests fall on one day.  CreateTask is one    *)
(* step here: the FOR UPDATE lock on the account row serialises two        *)
(* handlers of one account, and Spec follows its steps one by one.         *)

MaxPerTask == 2      \* accounts.global_max_per_task of the capped account
MaxPerDay  == 3      \* accounts.global_max_per_day of the capped account

ApiReqs     == {"r1", "r2"}
ApiAccounts == {"acc1", "acc2"}
ApiBudgets  == 0..(MaxPerTask + 1)
ApiTasks    == {"t1", "t2"}

(* The accounts row APIKeyAuth puts into the context: acc2 carries both    *)
(* caps, the caps of acc1 are NULL.                                        *)
Account(id) ==
    [id |-> id,
     globalMaxPerTask |-> IF id = "acc2" THEN Some(MaxPerTask) ELSE Null,
     globalMaxPerDay  |-> IF id = "acc2" THEN Some(MaxPerDay) ELSE Null,
     isSystemAccount  |-> IsSystemAccount(id)]

(* AgentRepo.ListByAccountID and the agents[0] APIKeyAuth keeps.           *)
ListByAccountID(rows, accountID) ==
    SelectSeq(rows, LAMBDA a : ~IsSystemAccount(a.account) /\ a.account = accountID)

AgentFromCtx(accountID) ==
    IF Len(ListByAccountID(AgentRows, accountID)) > 0
    THEN ListByAccountID(AgentRows, accountID)[1].id
    ELSE "none"

AllowedCapabilities == {"research", "summarize", "data_extraction"}

(* defaultDailySpend: SUM(amount) of the account's escrow_lock entries.    *)
defaultDailySpend(led, accountID) ==
    SumSeq([i \in 1..Len(SelectSeq(led, LAMBDA e :
                  e.account = accountID /\ e.kind = CreditEntryEscrowLock)) |->
              SelectSeq(led, LAMBDA e :
                  e.account = accountID /\ e.kind = CreditEntryEscrowLock)[i].amount])

(* uuid.New() of request r.                                                *)
NewID(r) == IF r = "r1" THEN "t1" ELSE "t2"

BreqIdle == [pc |-> "idle", account |-> "none", budget |-> 0, resp |-> 0]

InitApi ==
    /\ initBal = [a \in Accounts |-> IF a \in ApiAccounts THEN 2 * MaxPerDay ELSE 0]
    /\ balance = initBal
    /\ ledger = <<>>
    /\ breq = [r \in ApiReqs |-> BreqIdle]
    /\ tasks = <<>>
    /\ got = {}
    /\ esc = <<>> /\ lk = <<>> /\ lastErr = <<>>
    /\ InitTaskIdle /\ InitMatchIdle /\ InitSettingsIdle /\ InitJobsIdle
    /\ InitLocksIdle /\ InitProcIdle /\ InitExecIdle

ApiUnchanged == UNCHANGED <<initBal, ledgerVars, taskVars, sideVars>>

(* The middleware: the response code it writes, 0 when it calls next.      *)
budgetCheck(acc, budget, capability, spent) ==
    IF budget <= 0 THEN 400
    ELSE IF capability # "" /\ capability \notin AllowedCapabilities THEN 403
    ELSE IF acc.globalMaxPerTask # Null /\ budget > acc.globalMaxPerTask[1] THEN 403
    ELSE IF acc.globalMaxPerDay # Null /\ spent + budget > acc.globalMaxPerDay[1] THEN 403
    ELSE 0

(* BudgetCheck of request r: reads today's spend from the committed ledger. *)
BudgetCheck(r, account, budget) ==
    /\ breq[r].pc = "idle"
    /\ LET code == budgetCheck(Account(account), budget, TaskCapability,
                               defaultDailySpend(ledger, account))
       IN  breq' = [breq EXCEPT ![r] = [pc |-> IF code = 0 THEN "handler" ELSE "done",
                                        account |-> account, budget |-> budget,
                                        resp |-> code]]
    /\ UNCHANGED <<balance, ledger, tasks, got>>
    /\ ApiUnchanged

(* CreateTask of request r, which passed the middleware: LockCredits,      *)
(* TaskRepo.Create, commit, 202; or 402.                                   *)
CreateTask(r) ==
    /\ breq[r].pc = "handler"
    /\ LET account == breq[r].account
           req == createTaskRequest(AgentFromCtx(account), breq[r].budget, "",
                                    Payload(TRUE, TRUE))
           l   == LockCredits(Store(balance, ledger), balance[account], account, NewID(r),
                              req.budget)
       IN  IF l.err = "ErrInsufficientFunds"
           THEN /\ breq' = [breq EXCEPT ![r].pc = "done", ![r].resp = 402]
                /\ UNCHANGED <<balance, ledger, tasks>>
           ELSE /\ balance' = l.db.bal /\ ledger' = l.db.led
                /\ tasks' = Append(tasks, [id |-> NewID(r), task |-> RowOf(NewTask(req))])
                /\ breq' = [breq EXCEPT ![r].pc = "done", ![r].resp = 202]
    /\ UNCHANGED got
    /\ ApiUnchanged

(* TaskRepo.ListByRequesterAgentID.                                        *)
ListByRequesterAgentID(rows, requesterAgentID) ==
    SelectSeq(rows, LAMBDA t : t.task.requester = requesterAgentID)

(* A task row served to the authenticated account by one of the GETs.      *)
Served(account, id, handler) == [caller |-> account, task |-> id, handler |-> handler]

(* TaskHandler.GetTask: TaskRepo.GetByID, 404 or 200 with the row.         *)
GetTask(account, id) ==
    /\ \E i \in 1..Len(tasks) : tasks[i].id = id
    /\ got' = got \cup {Served(account, id, "GetTask")}
    /\ UNCHANGED <<balance, ledger, breq, tasks>>
    /\ ApiUnchanged

(* listTasks: the tasks whose requester is the caller's first agent.       *)
listTasks(account) ==
    /\ AgentFromCtx(account) # "none"
    /\ LET list == ListByRequesterAgentID(tasks, AgentFromCtx(account))
       IN  got' = got \cup {Served(account, list[i].id, "listTasks") : i \in 1..Len(list)}
    /\ UNCHANGED <<balance, ledger, breq, tasks>>
    /\ ApiUnchanged

NextApi ==
    \/ \E r \in ApiReqs, account \in ApiAccounts, budget \in ApiBudgets :
          BudgetCheck(r, account, budget)
    \/ \E r \in ApiReqs : CreateTask(r)
    \/ \E account \in ApiAccounts, id \in ApiTasks : GetTask(account, id)
    \/ \E account \in ApiAccounts : listTasks(account)

SpecApi == InitApi /\ [][NextApi]_vars

----------------------------------------------------------------------------
(* SpecMatch: the matcher called directly, as matching_test.go calls it,   *)
(* on agent tables that may hold an agent of the system platform account.  *)

(* An online worker of the system account that offers every capability     *)
(* (capabilities_offered NULL) at the default price.                       *)
platformAgent == AgentRow("ws", SystemPlatformAccountID, "worker", "online", NullCaps,
                          Some(100), Some(50))

(* Two more ordinary workers, so that prices and response times tie.       *)
MoreWorkers ==
    << AgentRow("w3", "acc2", "worker", "online", Caps([summarize |-> 2]), Some(90), Some(50)),
       AgentRow("w4", "acc3", "worker", "online", Caps([summarize |-> 3, research |-> 3]),
                Null, Some(100)) >>

MatchPool == <<platformAgent, AgentRows[1], AgentRows[2]>> \o MoreWorkers

(* A table of 13 workers of one price: b1 answers in 200 ms, the others    *)
(* in 100 ms.                                                              *)
LargeIds == <<"b1", "b2", "b3", "b4", "b5", "b6", "b7", "b8", "b9", "b10", "b11", "b12", "b13">>
LargeTable ==
    [i \in 1..Len(LargeIds) |->
        AgentRow(LargeIds[i], IF i % 2 = 0 THEN "acc2" ELSE "acc3", "worker", "online",
                 Caps([summarize |-> 1]), Null, Some(IF i = 1 THEN 200 ELSE 100))]

MaxTable == 4        \* SpecMatch: most rows of an agent table

(* The tables: up to n rows of the pool, no row twice, in every order.     *)
RECURSIVE Arrangements(_)
Arrangements(n) ==
    IF n = 0 THEN {<<>>}
    ELSE LET shorter == Arrangements(n - 1)
             longest == {t \in shorter : Len(t) = n - 1}
             fresh   == {pr \in longest \X (1..Len(MatchPool)) :
                            \A a \in 1..Len(pr[1]) : pr[1][a] # MatchPool[pr[2]]}
         IN  shorter \cup {Append(pr[1], MatchPool[pr[2]]) : pr \in fresh}

(* A table holding a worker whose capabilities_offered column is NULL.     *)
NullCapsTable ==
    << AgentRow("wn", "acc3", "worker", "online", NullCaps, Null, Some(100)), AgentRows[2] >>

MatchTables       == Arrangements(MaxTable) \cup {LargeTable, NullCapsTable}
MatchCapabilities == {"summarize", "research"}
MatchBudgets      == 0..(MaxBudget + 1)
MatchPrefs        == {"", RoutingFastest, RoutingCheapest, RoutingAuto, "nearest"}
MatchExcludes     == {MatchPool[i].id : i \in 1..Len(MatchPool)} \cup {LargeIds[1], LargeIds[2]}

InitMatch ==
    /\ mq \in [rows : MatchTables, capability : MatchCapabilities, budget : MatchBudgets,
                pref : MatchPrefs, pc : {"idle"}, exclude : {"none"}, best : {"none"},
                fallbacks : {<<>>}]
    /\ initBal = [a \in Accounts |-> 0]
    /\ balance = initBal
    /\ ledger = <<>>
    /\ esc = <<>> /\ lk = <<>> /\ lastErr = <<>>
    /\ InitTaskIdle /\ InitApiIdle /\ InitSettingsIdle /\ InitJobsIdle
    /\ InitLocksIdle /\ InitProcIdle /\ InitExecIdle

MatchUnchanged == UNCHANGED <<balance, ledger, initBal, ledgerVars, taskVars, apiVars, jobVars,
                              settingsVars, lockVars, procVars, execVars>>

(* Matcher.FindBestWorker for the task of mq.                              *)
MatchBest ==
    /\ mq.pc = "idle"
    /\ \E best \in FindBestWorkerResults(mq.rows, mq.capability, mq.budget, mq.pref) :
          mq' = [mq EXCEPT !.pc = "best", !.best = best]
    /\ MatchUnchanged

(* Matcher.FindFallbacks after the worker `exclude` failed.                *)
MatchFallbacks(exclude) ==
    /\ mq.pc = "best"
    /\ \E fallbacks \in FindFallbacksResults(mq.rows, mq.capability, mq.budget,
                                               mq.pref, exclude) :
          mq' = [mq EXCEPT !.pc = "fallbacks", !.exclude = exclude, !.fallbacks = fallbacks]
    /\ MatchUnchanged

NextMatch ==
    \/ MatchBest
    \/ \E exclude \in MatchExcludes : MatchFallbacks(exclude)

SpecMatch == InitMatch /\ [][NextMatch]_vars

----------------------------------------------------------------------------
(* SpecJobs: the jobs path (jobs/handler.go, jobs/repository.go,           *)
(* ledger/service.go).  POST /jobs inserts the job as OPEN through the     *)
(* pool and then calls AssignAgent, which matches, assigns, places the     *)
(* escrow hold and enqueues the execution job in one transaction.  The     *)
(* writes of an open transaction are kept in jreq and reach the tables     *)
(* when it commits; the UPDATE of PlaceEscrowHold holds the requester's    *)
(* accounts row until the transaction ends.                                *)

JReqs      == {"j1", "j2"}
JAccounts  == {"acc1", "acc2"}
JobBudgets == 0..MaxBudget
JobCapabilities == {{"summarize"}, {"translate"}}

escrowAccountID == "escrow"

(* The agent_profiles table.                                               *)
AgentProfile(id, account, status, price, capabilities) ==
    [id |-> id, account |-> account, status |-> status, base_price_cents |-> price,
     capabilities |-> capabilities]

agent_profiles ==
    { AgentProfile("ag1", "acc3", "ACTIVE", 1, {"summarize"}),
      AgentProfile("ag2", "acc3", "ACTIVE", 2, {"summarize", "translate"}),
      AgentProfile("ag3", "acc3", "INACTIVE", 1, {"translate"}) }

(* balance_cents the two requesters start with.                            *)
JobBalances == [a \in JAccounts |-> IF a = "acc1" THEN 2 ELSE 1]

NoJob == [status |-> "none", requester |-> "none", capabilities |-> {}, budget |-> 0,
          agent |-> "none", agreed |-> 0]

JIdle == [pc |-> "idle", agent |-> "none", agreed |-> 0, assigned |-> FALSE,
          held |-> FALSE, queued |-> FALSE, err |-> "none", response |-> "none"]

InitJobs ==
    /\ jobs = [j \in JReqs |-> NoJob]
    /\ accounts = [a \in JAccounts |-> [balance_cents |-> JobBalances[a], hold_cents |-> 0]]
    /\ transactions = <<>>
    /\ escrow_holds = <<>>
    /\ river_job = <<>>
    /\ jreq = [j \in JReqs |-> JIdle]
    /\ initBal = [a \in Accounts |-> 0]
    /\ balance = initBal
    /\ ledger = <<>>
    /\ esc = <<>> /\ lk = <<>> /\ lastErr = <<>>
    /\ InitTaskIdle /\ InitApiIdle /\ InitMatchIdle /\ InitSettingsIdle
    /\ InitLocksIdle /\ InitProcIdle /\ InitExecIdle

JobsUnchanged == UNCHANGED <<balance, ledger, initBal, ledgerVars, taskVars, apiVars,
                             matchVars, settingsVars, lockVars, procVars, execVars>>

(* Repository.FindMatchingAgent: the cheapest ACTIVE profile within the    *)
(* budget that has every required capability, NoAgent for no row.          *)
NoAgent == AgentProfile("none", "none", "none", 0, {})

FindMatchingAgent(requiredCapabilities, maxBudgetCents) ==
    LET fit == {p \in agent_profiles :
                   /\ p.status = "ACTIVE"
                   /\ p.base_price_cents <= maxBudgetCents
                   /\ requiredCapabilities \subseteq p.capabilities}
    IN  IF fit = {} THEN NoAgent
        ELSE CHOOSE p \in fit : \A q \in fit : p.base_price_cents <= q.base_price_cents

(* The accounts row `a` is held by the open transaction of a request.      *)
AccountRowHeld(a) == \E j \in JReqs : jreq[j].held /\ jobs[j].requester = a

(* Handler.CreateJob up to svc.CreateJob: 400 for a budget that is not     *)
(* positive, else the job row is inserted as OPEN.                         *)
CreateJob(j, requester, capabilities, budget) ==
    /\ jreq[j].pc = "idle"
    /\ IF budget <= 0
       THEN /\ jreq' = [jreq EXCEPT ![j].pc = "done", ![j].response = "400"]
            /\ UNCHANGED jobs
       ELSE /\ jobs' = [jobs EXCEPT ![j] = [status |-> "OPEN", requester |-> requester,
                                            capabilities |-> capabilities, budget |-> budget,
                                            agent |-> "none", agreed |-> 0]]
            /\ jreq' = [jreq EXCEPT ![j].pc = "created"]
    /\ UNCHANGED <<accounts, transactions, escrow_holds, river_job>>
    /\ JobsUnchanged

(* The deferred tx.Rollback of AssignAgent on its error returns.           *)
Rollback(j, err) ==
    [jreq[j] EXCEPT !.pc = "returned", !.assigned = FALSE, !.held = FALSE,
                    !.queued = FALSE, !.err = err]

(* AssignAgent: GetByID, the OPEN check, Begin and FindMatchingAgent.      *)
AssignAgent(j) ==
    /\ jreq[j].pc = "created"
    /\ LET agent == FindMatchingAgent(jobs[j].capabilities, jobs[j].budget)
       IN  jreq' = [jreq EXCEPT ![j] =
               IF jobs[j].status # "OPEN" THEN Rollback(j, "job is not open for assignment")
               ELSE IF agent = NoAgent THEN Rollback(j, "ErrNoRows")
               ELSE [@ EXCEPT !.pc = "matched", !.agent = agent.id,
                              !.agreed = agent.base_price_cents]]
    /\ UNCHANGED <<jobs, accounts, transactions, escrow_holds, river_job>>
    /\ JobsUnchanged

(* Repository.UpdateAssigned through the caller's tx.                      *)
UpdateAssignedMut(j) ==
    /\ jreq[j].pc = "matched"
    /\ jobs' = [jobs EXCEPT ![j].status = "ASSIGNED", ![j].agent = jreq[j].agent,
                            ![j].agreed = jreq[j].agreed]
    /\ jreq' = [jreq EXCEPT ![j].pc = "assigned"]
    /\ UNCHANGED <<accounts, transactions, escrow_holds, river_job>>
    /\ JobsUnchanged

UpdateAssigned(j) ==
    /\ jreq[j].pc = "matched"
    /\ jreq' = [jreq EXCEPT ![j].pc = "assigned", ![j].assigned = TRUE]
    /\ UNCHANGED <<jobs, accounts, transactions, escrow_holds, river_job>>
    /\ JobsUnchanged

(* Repository.PlaceEscrowHold: the conditional UPDATE of the requester's   *)
(* row waits for the row, then either matches no row (insufficient funds)  *)
(* or moves the amount to hold_cents and inserts the two records.          *)
PlaceEscrowHold(j) ==
    /\ jreq[j].pc = "assigned"
    /\ ~AccountRowHeld(jobs[j].requester)
    /\ jreq' = [jreq EXCEPT ![j] =
           IF accounts[jobs[j].requester].balance_cents >= jreq[j].agreed
           THEN [@ EXCEPT !.pc = "held", !.held = TRUE]
           ELSE Rollback(j, "ErrInsufficientFunds")]
    /\ UNCHANGED <<jobs, accounts, transactions, escrow_holds, river_job>>
    /\ JobsUnchanged

(* insertExecuteAgent (river.Client.InsertTx), which may fail.             *)
InsertExecuteAgent(j, fails) ==
    /\ jreq[j].pc = "held"
    /\ jreq' = [jreq EXCEPT ![j] =
           IF fails THEN Rollback(j, "insert failed")
           ELSE [@ EXCEPT !.pc = "queued", !.queued = TRUE]]
    /\ UNCHANGED <<jobs, accounts, transactions, escrow_holds, river_job>>
    /\ JobsUnchanged

(* tx.Commit: every write of the transaction reaches the tables, or none.  *)
Commit(j, fails) ==
    /\ jreq[j].pc = "queued"
    /\ IF fails
       THEN /\ jreq' = [jreq EXCEPT ![j] = Rollback(j, "commit failed")]
            /\ UNCHANGED <<jobs, accounts, transactions, escrow_holds, river_job>>
       ELSE LET requester == jobs[j].requester
                amount    == jreq[j].agreed
            IN  /\ jobs' = IF jreq[j].assigned
                           THEN [jobs EXCEPT ![j].status = "ASSIGNED",
                                             ![j].agent = jreq[j].agent,
                                             ![j].agreed = amount]
                           ELSE jobs
                /\ accounts' = [accounts EXCEPT ![requester].balance_cents = @ - amount,
                                                ![requester].hold_cents = @ + amount]
                /\ transactions' = Append(transactions,
                       [tx_type |-> "ESCROW_HOLD", job |-> j, debit |-> requester,
                        credit |-> escrowAccountID, amount |-> amount])
                /\ escrow_holds' = Append(escrow_holds,
                       [job |-> j, requester |-> requester, amount |-> amount,
                        status |-> "HELD"])
                /\ river_job' = Append(river_job, [job |-> j, agent |-> jreq[j].agent])
                /\ jreq' = [jreq EXCEPT ![j].pc = "returned", ![j].held = FALSE,
                                        ![j].err = "nil"]
    /\ JobsUnchanged

(* Handler.CreateJob after AssignAgent: GetJob and the 201 response with   *)
(* the job's current status.                                               *)
Respond(j) ==
    /\ jreq[j].pc = "returned"
    /\ jreq' = [jreq EXCEPT ![j].pc = "done", ![j].response = jobs[j].status]
    /\ UNCHANGED <<jobs, accounts, transactions, escrow_holds, river_job>>
    /\ JobsUnchanged

NextJobs ==
    \/ \E j \in JReqs, a \in JAccounts, c \in JobCapabilities, b \in JobBudgets :
          CreateJob(j, a, c, b)
    \/ \E j \in JReqs : AssignAgent(j)
    \/ \E j \in JReqs : UpdateAssigned(j)
    \/ \E j \in JReqs : PlaceEscrowHold(j)
    \/ \E j \in JReqs, fails \in BOOLEAN : InsertExecuteAgent(j, fails)
    \/ \E j \in JReqs, fails \in BOOLEAN : Commit(j, fails)
    \/ \E j \in JReqs : Respond(j)

SpecJobs == InitJobs /\ [][NextJobs]_vars

----------------------------------------------------------------------------
(* SpecSettings: the escrow operations of SpecLedger next to               *)
(* PATCH /api/v1/account/settings (dashboard/handler.go).  The handler     *)
(* reads the whole accounts row through the pool, changes the profile      *)
(* fields the body names and writes every column back with                 *)
(* AccountRepo.Update, credit_balance included.                            *)

SettingsReqs     == {"s1"}
SettingsAccounts == {"acc1", "acc2"}

SuIdle == [pc |-> "idle", account |-> "none", CreditBalance |-> 0, status |-> 0]

InitSettings ==
    /\ initBal = [a \in Accounts |-> IF a = "acc1" THEN MaxAmount
                                      ELSE IF a = "acc2" THEN 1 ELSE 0]
    /\ balance = initBal
    /\ ledger = <<>>
    /\ esc = [t \in LTasks |-> NoEscrow]
    /\ lk = [p \in Lockers |-> LkIdle]
    /\ lastErr = [p \in Lockers |-> "none"]
    /\ su = [u \in SettingsReqs |-> SuIdle]
    /\ InitTaskIdle /\ InitApiIdle /\ InitMatchIdle /\ InitJobsIdle
    /\ InitLocksIdle /\ InitProcIdle /\ InitExecIdle

SettingsUnchanged == UNCHANGED <<ledger, initBal, ledgerVars, taskVars, apiVars, matchVars,
                                 jobVars, lockVars, procVars, execVars>>

(* UpdateSettings up to accountR.GetByID: a plain SELECT of the row.       *)
UpdateSettingsGetByID(u, accountID) ==
    /\ su[u].pc = "idle"
    /\ su' = [su EXCEPT ![u] = [pc |-> "read", account |-> accountID,
                                 CreditBalance |-> balance[accountID], status |-> 0]]
    /\ UNCHANGED balance
    /\ SettingsUnchanged

(* AccountRepo.Update: UPDATE accounts SET ..., credit_balance = $6, ...   *)
(* with the values of the struct read before.                              *)
Update(u) == balance' = [balance EXCEPT ![su[u].account] = su[u].CreditBalance]

(* The rest of UpdateSettings: 400 for a body that does not decode, else   *)
(* the UPDATE, which waits for the row lock, and 200.                      *)
UpdateSettings(u, decodes) ==
    /\ su[u].pc = "read"
    /\ IF decodes
       THEN /\ ~LRowLocked(su[u].account)
            /\ Update(u)
            /\ su' = [su EXCEPT ![u].pc = "done", ![u].status = 200]
       ELSE /\ UNCHANGED balance
            /\ su' = [su EXCEPT ![u].pc = "done", ![u].status = 400]
    /\ SettingsUnchanged

NextSettings ==
    \/ NextLedger
    \/ \E u \in SettingsReqs, a \in SettingsAccounts : UpdateSettingsGetByID(u, a)
    \/ \E u \in SettingsReqs, decodes \in BOOLEAN : UpdateSettings(u, decodes)

SpecSettings == InitSettings /\ [][NextSettings]_vars

----------------------------------------------------------------------------
(* SpecForeign: the task of Spec, where the body of POST /v1/tasks names   *)
(* as requester_agent_id an agent that does not belong to the              *)
(* authenticated account: w1, an agent of acc2.                            *)

ForeignAgents  == {"w1"}
ForeignBudgets == 1..MaxBudget

NextForeign ==
    \/ \E requester \in ForeignAgents, budget \in ForeignBudgets, pref \in Prefs,
          input \in Inputs :
          H_Lock(requester, budget, pref, input)
    \/ H_Create
    \/ H_Commit
    \/ H_Return
    \/ DispatchTask
    \/ dispatchToWorker
    \/ \E outcome \in PostOutcomes : Post(outcome)
    \/ MarkInProgress
    \/ monitorDeadline
    \/ MarkDeadlineFailed
    \/ dispatchWithFallback
    \/ FindFallbacksStep
    \/ refundAndFail
    \/ RefundStep
    \/ \E c \in Callers, agent \in CallbackAgents, path \in CallbackPaths :
          SubmitResultRead(c, agent, path)
    \/ \E c \in Callers, req \in Results : SubmitResultSettle(c, req)
    \/ \E c \in Callers : SubmitResultCommit(c)

SpecForeign == Init /\ [][NextForeign]_vars

----------------------------------------------------------------------------
(* SpecLocks: the row locks the escrow transactions take.  Every escrow    *)
(* call runs in its handler's transaction; GetByIDForUpdate waits until no *)
(* other transaction holds the row, and the locks go at commit.            *)

LockTxs      == {"t1", "t2", "t3"}
LockAccounts == {"acc1", "acc2", "acc3"}

(* The place of an account's UUID string in ascending order; the platform  *)
(* account 00000000-0000-0000-0000-000000000001 comes first.               *)
idString == [acc0 |-> 0, acc1 |-> 1, acc2 |-> 2, acc3 |-> 3]

RECURSIVE insertId(_, _)
insertId(s, id) ==
    IF s = <<>> THEN <<id>>
    ELSE IF idString[id] < idString[s[Len(s)]]
         THEN Append(insertId(SubSeq(s, 1, Len(s) - 1), id), s[Len(s)])
         ELSE Append(s, id)

(* sort.Slice on a short slice: insertion sort, stable.                     *)
RECURSIVE insertionSortIds(_)
insertionSortIds(ids) ==
    IF ids = <<>> THEN <<>>
    ELSE insertId(insertionSortIds(SubSeq(ids, 1, Len(ids) - 1)), ids[Len(ids)])

(* sort.Slice(ids, ids[i].String() < ids[j].String()) of SettleTask.       *)
sortIdsMut(ids) == ids

sortIds(ids) == insertionSortIds(ids)

LtxIdle == [pc |-> "idle", op |-> "", ids |-> <<>>, n |-> 0]

InitLocks ==
    /\ ltx = [x \in LockTxs |-> LtxIdle]
    /\ balance = <<>> /\ initBal = <<>> /\ ledger = <<>>
    /\ esc = <<>> /\ lk = <<>> /\ lastErr = <<>>
    /\ InitTaskIdle /\ InitApiIdle /\ InitMatchIdle /\ InitSettingsIdle /\ InitJobsIdle
    /\ InitProcIdle /\ InitExecIdle

LocksUnchanged == UNCHANGED <<balance, ledger, initBal, ledgerVars, taskVars, apiVars,
                              matchVars, settingsVars, jobVars, procVars, execVars>>

(* The rows a transaction holds: those it has selected FOR UPDATE.         *)
RowsHeld(x) == {ltx[x].ids[i] : i \in 1..ltx[x].n}

TxBegin(x, op, ids) ==
    /\ ltx[x].pc = "idle"
    /\ ltx' = [ltx EXCEPT ![x] = [pc |-> "locking", op |-> op, ids |-> ids, n |-> 0]]
    /\ LocksUnchanged

(* LockCredits locks the one row it debits.                                *)
TxLockCredits(x, accountID) == TxBegin(x, "LockCredits", <<accountID>>)

(* SettleTask locks requester, worker and platform in the sorted order.    *)
TxSettleTask(x, requesterID, workerID) ==
    TxBegin(x, "SettleTask", sortIds(<<requesterID, workerID, SystemPlatformAccountID>>))

(* SettleError / RefundFailed lock the one row they credit.                *)
TxSettleError(x, requesterID) == TxBegin(x, "SettleError", <<requesterID>>)

(* SELECT ... FOR UPDATE: granted once no other transaction holds the row; *)
(* a row the transaction already holds is granted at once.                 *)
TxGetByIDForUpdate(x) ==
    /\ ltx[x].pc = "locking"
    /\ ltx[x].n < Len(ltx[x].ids)
    /\ \A y \in LockTxs \ {x} : ltx[x].ids[ltx[x].n + 1] \notin RowsHeld(y)
    /\ ltx' = [ltx EXCEPT ![x].n = @ + 1]
    /\ LocksUnchanged

(* Commit or rollback: every row lock of the transaction is released.      *)
TxCommit(x) ==
    /\ ltx[x].pc = "locking"
    /\ ltx[x].n = Len(ltx[x].ids)
    /\ ltx' = [ltx EXCEPT ![x] = LtxIdle]
    /\ LocksUnchanged

NextLocks ==
    \/ \E x \in LockTxs, a \in LockAccounts : TxLockCredits(x, a)
    \/ \E x \in LockTxs, r \in LockAccounts, w \in LockAccounts : TxSettleTask(x, r, w)
    \/ \E x \in LockTxs, r \in LockAccounts : TxSettleError(x, r)
    \/ \E x \in LockTxs : TxGetByIDForUpdate(x)
    \/ \E x \in LockTxs : TxCommit(x)

SpecLocks == InitLocks /\ [][NextLocks]_vars

----------------------------------------------------------------------------
(* SpecRestart: Spec with one restart of the API process.  The dispatch    *)
(* runs in a goroutine started by CreateTask and the deadline watcher in a *)
(* goroutine started by dispatchToWorker; a restart ends both, rolls back  *)
(* the open transactions and drops the requests in flight.  main starts    *)
(* nothing that picks up the tasks rows the old process left behind.       *)

RestartCallers == {"c1"}

Restart ==
    /\ ~restarted
    /\ restarted' = TRUE
    /\ hpc' = IF hpc = "idle" THEN "idle" ELSE "done"
    /\ dpc' = IF dpc \in {"idle", "done", "dead"} THEN dpc ELSE "lost"
    /\ cb' = [c \in Callers |->
                 IF cb[c].pc \in {"settle", "commit"} THEN [cb[c] EXCEPT !.pc = "done"]
                 ELSE cb[c]]
    /\ UNCHANGED <<balance, ledger, initBal, ledgerVars, apiVars, matchVars, jobVars,
                   settingsVars, lockVars, execVars, row, hreq, ctxDone, dtask, dworker, dctx, posts,
                   wasTerminal, late>>

HandlerStep == H_Create \/ H_Commit \/ H_Return

DispatcherStep ==
    \/ DispatchTask
    \/ dispatchToWorker
    \/ \E outcome \in PostOutcomes : Post(outcome)
    \/ MarkInProgress
    \/ monitorDeadline
    \/ MarkDeadlineFailed
    \/ dispatchWithFallback
    \/ FindFallbacksStep
    \/ refundAndFail
    \/ RefundStep

CallbackStep ==
    \/ \E c \in RestartCallers, req \in Results : SubmitResultSettle(c, req)
    \/ \E c \in RestartCallers : SubmitResultCommit(c)

NextRestart ==
    \/ \E requester \in ReqAgents, budget \in Budgets, pref \in Prefs, input \in Inputs :
          H_Lock(requester, budget, pref, input)
    \/ HandlerStep
    \/ DispatcherStep
    \/ \E c \in RestartCallers, agent \in CallbackAgents, path \in CallbackPaths :
          SubmitResultRead(c, agent, path)
    \/ CallbackStep
    \/ Restart

(* The Go scheduler runs every goroutine that can take a step; when a      *)
(* worker posts a result, and whether the process restarts, is open.       *)
SpecRestart ==
    /\ Init /\ [][NextRestart]_vars
    /\ WF_vars(HandlerStep) /\ WF_vars(DispatcherStep) /\ WF_vars(CallbackStep)

----------------------------------------------------------------------------
(* SpecExec: SpecJobs together with the execution of the queued jobs.      *)
(* River runs ExecuteAgentWorker.Work for a queued job, one run at a time, *)
(* and runs it again after a run that returned an error, up to MaxAttempts *)
(* runs.  Work posts to the agent's webhook and calls MarkJobCompleted or  *)
(* MarkJobFailed: an UPDATE of the jobs row through the pool, then         *)
(* ReleaseEscrow or RefundEscrow in a transaction of its own.              *)

MaxAttempts == 2     \* SpecExec: runs River gives one execution job

ExecAccounts    == JAccounts \cup {"acc3"}
ExecCapabilities == {{"summarize"}}
ExecBudgets     == {MaxBudget}
WebhookOutcomes == {"network error", "non-2xx", "invalid JSON", "ok"}
TxOutcomes      == {"commit", "rollback", "commit, reply lost"}

WIdle == [pc |-> "available", op |-> "none", attempt |-> 0, err |-> "none"]

InitExec ==
    /\ jobs = [j \in JReqs |-> NoJob]
    /\ accounts = [a \in ExecAccounts |->
                      [balance_cents |-> IF a \in JAccounts THEN JobBalances[a] ELSE 0,
                       hold_cents |-> 0]]
    /\ transactions = <<>>
    /\ escrow_holds = <<>>
    /\ river_job = <<>>
    /\ jreq = [j \in JReqs |-> JIdle]
    /\ work = [j \in JReqs |-> WIdle]
    /\ initBal = [a \in Accounts |-> 0]
    /\ balance = initBal
    /\ ledger = <<>>
    /\ esc = <<>> /\ lk = <<>> /\ lastErr = <<>>
    /\ InitTaskIdle /\ InitApiIdle /\ InitMatchIdle /\ InitSettingsIdle
    /\ InitLocksIdle /\ InitProcIdle

ExecUnchanged == UNCHANGED <<balance, ledger, initBal, ledgerVars, taskVars, apiVars,
                             matchVars, settingsVars, lockVars, procVars>>

(* Repository.GetProviderAccountID: the account of the assigned agent.     *)
GetProviderAccountID(j) ==
    (CHOOSE p \in agent_profiles : p.id = jobs[j].agent).account

(* The run returned an error: River schedules another run, or discards the *)
(* job after its last attempt.                                             *)
Retried(w, err) ==
    [w EXCEPT !.pc = IF w.attempt >= MaxAttempts THEN "discarded" ELSE "available",
              !.err = err]

(* ExecuteAgentWorker.Work up to the UPDATE of the jobs row.               *)
Work(j, outcome) ==
    /\ \E i \in 1..Len(river_job) : river_job[i].job = j
    /\ work[j].pc = "available"
    /\ work[j].attempt < MaxAttempts
    /\ LET w == [work[j] EXCEPT !.attempt = @ + 1]
       IN  CASE outcome = "network error" ->
                  /\ work' = [work EXCEPT ![j] = Retried(w, "network error")]
                  /\ UNCHANGED jobs
             [] outcome \in {"non-2xx", "invalid JSON"} ->
                  /\ jobs' = [jobs EXCEPT ![j].status = "FAILED"]
                  /\ work' = [work EXCEPT ![j] = [w EXCEPT !.pc = "escrow",
                                                           !.op = "RefundEscrow"]]
             [] outcome = "ok" ->
                  /\ jobs' = [jobs EXCEPT ![j].status = "SETTLED"]
                  /\ work' = [work EXCEPT ![j] = [w EXCEPT !.pc = "escrow",
                                                           !.op = "ReleaseEscrow"]]
    /\ UNCHANGED <<accounts, transactions, escrow_holds, river_job, jreq>>
    /\ ExecUnchanged

(* SELECT ... FROM escrow_holds WHERE job_id = $1 AND status = 'HELD'.     *)
selectHeldMut(j) == SelectSeq(escrow_holds, LAMBDA h : h.job = j)

selectHeld(j) == SelectSeq(escrow_holds, LAMBDA h : h.job = j /\ h.status = "HELD")

(* UPDATE escrow_holds SET status = ... WHERE job_id = $2.                 *)
setHoldStatus(j, status) ==
    [i \in 1..Len(escrow_holds) |->
        IF escrow_holds[i].job = j THEN [escrow_holds[i] EXCEPT !.status = status]
        ELSE escrow_holds[i]]

(* ReleaseEscrow: the writes of its transaction.                           *)
ReleaseEscrow(j, providerID) ==
    LET hold == selectHeld(j)[1]
        held == [accounts EXCEPT ![hold.requester].hold_cents = @ - hold.amount]
    IN  /\ transactions' = Append(transactions,
               [tx_type |-> "ESCROW_RELEASE", job |-> j, debit |-> escrowAccountID,
                credit |-> providerID, amount |-> hold.amount])
        /\ escrow_holds' = setHoldStatus(j, "RELEASED")
        /\ accounts' = [held EXCEPT ![providerID].balance_cents = @ + hold.amount]

(* RefundEscrow: the writes of its transaction.                            *)
RefundEscrow(j) ==
    LET hold == selectHeld(j)[1]
    IN  /\ transactions' = Append(transactions,
               [tx_type |-> "ESCROW_REFUND", job |-> j, debit |-> escrowAccountID,
                credit |-> hold.requester, amount |-> hold.amount])
        /\ escrow_holds' = setHoldStatus(j, "REFUNDED")
        /\ accounts' = [accounts EXCEPT ![hold.requester].hold_cents = @ - hold.amount,
                                        ![hold.requester].balance_cents = @ + hold.amount]

(* The rest of MarkJobCompleted / MarkJobFailed: the escrow transaction,   *)
(* and the return of Work.  Scan fails when the SELECT finds no row; the   *)
(* transaction commits, rolls back on an error, or commits while the       *)
(* caller gets an error from tx.Commit.                                    *)
CloseEscrow(j, outcome) ==
    /\ work[j].pc = "escrow"
    /\ IF Len(selectHeld(j)) = 0
       THEN /\ outcome = "rollback"
            /\ work' = [work EXCEPT ![j] = Retried(@, "ErrNoRows")]
            /\ UNCHANGED <<accounts, transactions, escrow_holds>>
       ELSE IF outcome = "rollback"
       THEN /\ work' = [work EXCEPT ![j] = Retried(@, "tx failed")]
            /\ UNCHANGED <<accounts, transactions, escrow_holds>>
       ELSE /\ IF work[j].op = "ReleaseEscrow"
               THEN ReleaseEscrow(j, GetProviderAccountID(j))
               ELSE RefundEscrow(j)
            /\ work' = [work EXCEPT ![j] =
                           IF outcome = "commit"
                           THEN [@ EXCEPT !.pc = "completed", !.err = "nil"]
                           ELSE Retried(@, "commit failed")]
    /\ UNCHANGED <<jobs, river_job, jreq>>
    /\ ExecUnchanged

NextExec ==
    \/ \E j \in JReqs, a \in JAccounts, c \in ExecCapabilities, b \in ExecBudgets :
          CreateJob(j, a, c, b)
    \/ \E j \in JReqs : AssignAgent(j)
    \/ \E j \in JReqs : UpdateAssigned(j)
    \/ \E j \in JReqs : PlaceEscrowHold(j)
    \/ \E j \in JReqs, fails \in BOOLEAN : InsertExecuteAgent(j, fails)
    \/ \E j \in JReqs, fails \in BOOLEAN : Commit(j, fails)
    \/ \E j \in JReqs : Respond(j)
    \/ \E j \in JReqs, outcome \in WebhookOutcomes : Work(j, outcome)
    \/ \E j \in JReqs, outcome \in TxOutcomes : CloseEscrow(j, outcome)

SpecExec == InitExec /\ [][NextExec]_vars

----------------------------------------------------------------------------
(* Claims over SpecLedger.                                                 *)

(* C1: credits are conserved: in every state the account balances plus the *)
(* budgets still held in escrow for locked tasks equal the initial total,  *)
(* whatever accounts and amounts the lock, settle and refund calls name.   *)
C1_CreditsConserved == TotalBalance + HeldInEscrow = InitialTotal

(* C5: a LockCredits call never leaves the balance below zero; when the    *)
(* balance is below the amount it returns ErrInsufficientFunds and changes *)
(* neither the balance nor the ledger; otherwise it deducts exactly the    *)
(* amount and appends one escrow_lock entry.  Two calls on one account     *)
(* interleave at their row lock.                                           *)
C5_LockNeverNegative ==
    [][\A p \in Lockers :
        (lk[p].pc = "locked" /\ lk'[p].pc = "idle") =>
            LET a == lk[p].account
                m == lk[p].amount
            IN  /\ balance'[a] >= 0
                /\ balance[a] < m =>
                      /\ lastErr'[p] = "ErrInsufficientFunds"
                      /\ balance' = balance
                      /\ ledger' = ledger
                /\ balance[a] >= m =>
                      /\ lastErr'[p] = "nil"
                      /\ balance' = [balance EXCEPT ![a] = @ - m]
                      /\ Len(ledger') = Len(ledger) + 1
                      /\ ledger'[Len(ledger')].kind = CreditEntryEscrowLock
                      /\ ledger'[Len(ledger')].amount = m
                      /\ ledger'[Len(ledger')].account = a]_vars

(* Both outcomes of two locks on one account: one granted, one refused.    *)
C5_Witness ==
    /\ lastErr["p1"] = "ErrInsufficientFunds"
    /\ lastErr["p2"] = "nil"
    /\ \E t \in LTasks : esc[t].state = "locked" /\ balance[esc[t].account] = 0

(* C6: a success settlement with budget B and actual cost C, 1 <= C <= B,  *)
(* writes exactly one task_earning of C - floor(C/10) to the worker        *)
(* account, one platform_fee of floor(C/10) to the platform account and,   *)
(* when B - C > 0, one escrow_release of B - C to the requester; every     *)
(* account's balance moved by exactly its entries.                         *)
C6_SettlementSplit ==
    /\ \A t \in LTasks :
          (esc[t].state = "settled" /\ 1 <= esc[t].cost /\ esc[t].cost <= esc[t].budget) =>
              LET B == esc[t].budget
                  C == esc[t].cost
              IN  /\ Moves(ledger, t, CreditEntryTaskEarning) = <<<<esc[t].worker, C - (C \div 10)>>>>
                  /\ Moves(ledger, t, CreditEntryPlatformFee) =
                        <<<<SystemPlatformAccountID, C \div 10>>>>
                  /\ Moves(ledger, t, CreditEntryEscrowRelease) =
                        IF B - C > 0 THEN <<<<esc[t].account, B - C>>>> ELSE <<>>
                  /\ Moves(ledger, t, CreditEntryRefund) = <<>>
    /\ \A a \in Accounts : balance[a] = initBal[a] + LedgerSum(ledger, a)

(* A settlement with a non-zero fee and a non-zero remainder.              *)
C6_Witness ==
    \E t \in LTasks :
        /\ esc[t].state = "settled"
        /\ esc[t].cost >= 10 /\ esc[t].cost < esc[t].budget
        /\ esc[t].worker \notin {esc[t].account, SystemPlatformAccountID}

----------------------------------------------------------------------------
(* Claims over Spec.                                                       *)

Accepted(c) == cb[c].task # Null

(* Every process has run to its end: no handler is mid-request, the        *)
(* dispatcher goroutine has returned and no deadline monitor is pending.   *)
Quiescent ==
    /\ hpc = "done"
    /\ dpc \in {"idle", "done", "dead"}
    /\ \A c \in Callers : cb[c].pc \in {"idle", "done"}

(* C2: of two result callbacks sent by the assigned worker for the task    *)
(* while it is in_progress, in any interleaving, only one settles and is   *)
(* answered 200; the other is answered 409 and changes nothing.            *)
C2_OneCallbackSettles ==
    \A c \in Callers : \A d \in Callers \ {c} :
        ( /\ cb[c].agent = cb[d].agent
          /\ cb[c].seen = TaskStatusInProgress /\ cb[d].seen = TaskStatusInProgress
          /\ cb[c].resp = 200 /\ cb[c].task[1].status = TaskStatusCompleted
          /\ cb[d].pc = "done" /\ cb[d].resp # 400
          /\ Accepted(d) => cb[d].task[1].status = TaskStatusCompleted )
        => ( /\ cb[d].resp = 409
             /\ CountKind(ledger, TheTask, CreditEntryTaskEarning)
                  + CountKind(ledger, TheTask, CreditEntryRefund) <= 1 )

(* C3: when the worker's callback and the deadline monitor act on the same *)
(* in_progress task, only the first of them takes effect, so the task's    *)
(* escrow is never both settled and refunded.                              *)
C3_NeverSettledAndRefunded ==
    ( /\ dctx = "background"
      /\ \A c \in Callers : Accepted(c) =>
             /\ cb[c].seen = TaskStatusInProgress
             /\ cb[c].task[1].status # TaskStatusFailed )
    => ~( /\ CountKind(ledger, TheTask, CreditEntryTaskEarning) >= 1
          /\ CountKind(ledger, TheTask, CreditEntryRefund) >= 1 )

(* C4: once the row has held status completed or failed, a callback or a   *)
(* deadline firing that begins afterwards changes neither the row nor the  *)
(* ledger.                                                                 *)
C4_TerminalIsFinal ==
    [][ /\ \A c \in Callers :
              (late[c] /\ cb[c].pc # "idle" /\ cb'[c] # cb[c])
              => (row' = row /\ ledger' = ledger /\ balance' = balance)
        /\ (late[Monitor] /\ dctx = "background" /\ dpc # "sleep" /\ dpc' # dpc)
              => (row' = row /\ ledger' = ledger /\ balance' = balance) ]_vars

(* C7: whatever actual_cost the worker reports, the task_earning and the   *)
(* platform_fee of a settlement together are at most the task's budget.    *)
C7_PayoutWithinBudget ==
    \A i \in 1..Len(ledger) :
        (ledger[i].task = TheTask /\ ledger[i].kind = CreditEntryTaskEarning)
        => ledger[i].amount + ledger[i + 1].amount <= HReq.budget

(* The GetByID step of a request c to the result endpoint, made by an      *)
(* agent other than the worker the row names.                              *)
WrongAgentRead(c) ==
    /\ cb[c].pc = "idle" /\ cb'[c].pc # "idle"
    /\ cb'[c].path = ResultPath(TheTask)
    /\ row # Null
    /\ cb'[c].agent # Row.worker

C9_BoundedAttemptsThenRefund ==
    /\ Len(posts) <= maxRetries + 1
    /\ (Len(posts) = maxRetries + 1 /\ DTask.retry > maxRetries /\ Quiescent
           /\ \A c \in Callers : ~Accepted(c))
        => ( /\ Row.status = TaskStatusFailed
             /\ Moves(ledger, TheTask, CreditEntryRefund) = << <<Principal, Row.budget>> >> )

(* C10: a task that ends failed has exactly one escrow_lock followed by    *)
(* exactly one refund of the budget to the requester.                      *)
C10_FailedRefundedOnce ==
    (Quiescent /\ row # Null /\ Row.status = TaskStatusFailed)
    => ( /\ KindsOf(ledger, TheTask) = <<CreditEntryEscrowLock, CreditEntryRefund>>
         /\ Moves(ledger, TheTask, CreditEntryRefund) = << <<Principal, Row.budget>> >> )

C13_AtomicAdmission ==
    /\ row # Null => CountKind(ledger, TheTask, CreditEntryEscrowLock) = 1
    /\ CountKind(ledger, TheTask, CreditEntryEscrowLock) >= 1 => (row # Null /\ dpc # "idle")

(* C14: settlement and refund are atomic with the task row: a completed    *)
(* row has its task_earning committed, a failed row its refund, and these  *)
(* entries are committed only while the row is completed or failed.        *)
C14_SettlementAtomic ==
    row # Null =>
        /\ Row.status = TaskStatusCompleted
              => CountKind(ledger, TheTask, CreditEntryTaskEarning) >= 1
        /\ Row.status = TaskStatusFailed
              => CountKind(ledger, TheTask, CreditEntryRefund) >= 1
        /\ ( CountKind(ledger, TheTask, CreditEntryTaskEarning) >= 1
             \/ CountKind(ledger, TheTask, CreditEntryRefund) >= 1 )
              => Row.status \in TerminalStatuses

(* C15: after the 202 the dispatch never stops on account of the request   *)
(* context, and once every process has run to its end the task is          *)
(* completed or failed.                                                    *)
C15_ExecutionSurvivesRequest ==
    (hreq # Null /\ HReq.resp = 202)
    => ( /\ dpc # "dead"
         /\ Quiescent => Row.status \in TerminalStatuses )

(* C16: when a worker has answered the dispatch POST with 200 and no       *)
(* result callback is ever sent, the task ends failed with output_status   *)
(* error and its budget refunded.                                          *)
C16_SilentWorkerEndsFailed ==
    ( /\ Quiescent
      /\ \E i \in 1..Len(posts) : posts[i].ok
      /\ \A c \in Callers : cb[c].pc = "idle" )
    => ( /\ Row.status = TaskStatusFailed /\ Row.outputStatus = TaskOutputStatusError
         /\ Moves(ledger, TheTask, CreditEntryRefund) = << <<Principal, Row.budget>> >> )

(* C19: a result posted by a worker the task was dispatched to, to the     *)
(* callback_url of the dispatch payload, reaches the result handler (it is *)
(* not answered 404 by the mux).                                           *)
C19_CallbackUrlIsServed ==
    \A c \in Callers :
        ( /\ cb[c].pc = "done" /\ cb[c].path = CallbackURL(TheTask)
          /\ \E i \in 1..Len(posts) : posts[i].worker = cb[c].agent )
        => cb[c].resp # 404

(* C20: the dispatch POST leads to in_progress exactly when the worker     *)
(* endpoint answers with a 2xx status; any other status and a network      *)
(* error lead to the fallback path.                                        *)
C20_Any2xxAdvances ==
    [][ \A outcome \in PostOutcomes :
            (~CtxErr /\ Post(outcome))
            => dpc' = IF outcome \in 200..299 THEN "inProgress"
                      ELSE "dispatchWithFallback" ]_vars

----------------------------------------------------------------------------
(* Claims over SpecApi.                                                    *)

(* The account a task belongs to: the account of its requester agent.      *)
OwnerOf(id) ==
    resolveAccountID(tasks[CHOOSE i \in 1..Len(tasks) : tasks[i].id = id].task.requester)

(* The escrow_lock entries of an account among the first n ledger rows.    *)
SpendBefore(n, accountID) == defaultDailySpend(SubSeq(ledger, 1, n - 1), accountID)

(* C11: every escrow_lock of an account with caps P per task and D per day *)
(* is at most P, and together with the account's escrow_lock entries       *)
(* committed before it at most D, also when the account's requests run     *)
(* concurrently.                                                           *)
C11_BudgetCapsHold ==
    \A n \in 1..Len(ledger) :
        ledger[n].kind = CreditEntryEscrowLock =>
            LET acc == Account(ledger[n].account)
            IN  /\ acc.globalMaxPerTask # Null => ledger[n].amount <= acc.globalMaxPerTask[1]
                /\ acc.globalMaxPerDay # Null =>
                      SpendBefore(n, ledger[n].account) + ledger[n].amount
                          <= acc.globalMaxPerDay[1]

(* C18: a task row is served only to the account it belongs to.            *)
C18_ReadsScopedToAccount ==
    \A g \in got : OwnerOf(g.task) = g.caller

----------------------------------------------------------------------------
(* Claims over SpecMatch.                                                  *)

(* The agents of a table whose account is system-flagged.                  *)
SystemAgents(rows) == {rows[i].id : i \in {j \in 1..Len(rows) : IsSystemAccount(rows[j].account)}}

(* The table holds no agent of an ordinary account that offers the         *)
(* capability of the task.                                                 *)
OnlySystemOffers ==
    \A i \in 1..Len(mq.rows) :
        ~IsSystemAccount(mq.rows[i].account)
        => ~(mq.rows[i].caps.null \/ mq.capability \in DOMAIN mq.rows[i].caps.price)

(* C17: neither FindBestWorker nor FindFallbacks returns an agent of a     *)
(* system-flagged account; when only such agents offer the capability the  *)
(* best worker is nil and the fallbacks are empty.                         *)
C17_SystemAccountsNeverSelected ==
    /\ mq.best \notin SystemAgents(mq.rows)
    /\ \A i \in 1..Len(mq.fallbacks) : mq.fallbacks[i] \notin SystemAgents(mq.rows)
    /\ OnlySystemOffers => (mq.best = "none" /\ mq.fallbacks = <<>>)

(* Both calls made on a table where the platform's agent, affordable and   *)
(* online, is the only one offering the capability.                        *)
C17_Witness ==
    /\ mq.pc = "fallbacks" /\ mq.exclude # "ws"
    /\ mq.capability = "research" /\ mq.budget > 0
    /\ Len(mq.rows) > 1 /\ mq.rows[1] = platformAgent
    /\ mq.best = "none" /\ mq.fallbacks = <<>>

(* The row of an agent in the table of mq and the price the matcher reads  *)
(* for it.                                                                 *)
MatchRow(id) == mq.rows[CHOOSE i \in 1..Len(mq.rows) : mq.rows[i].id = id]
MatchPrice(id) == getPricingPerTask(MatchRow(id).caps, mq.capability)

(* The candidates left after the filters, in the order of the store.       *)
Survivors(exclude) ==
    buildCandidates(FindAvailableWorkers(mq.rows, mq.capability), mq.capability, mq.budget,
                    exclude)

(* C21: the best worker and every fallback has a price for the task's      *)
(* capability of at most the budget; when every row of the table is        *)
(* priced above the budget both results are empty.                         *)
C21_NeverOverBudget ==
    /\ mq.best # "none" => MatchPrice(mq.best) <= mq.budget
    /\ \A i \in 1..Len(mq.fallbacks) : MatchPrice(mq.fallbacks[i]) <= mq.budget
    /\ (\A i \in 1..Len(mq.rows) : MatchPrice(mq.rows[i].id) > mq.budget)
         => (mq.best = "none" /\ mq.fallbacks = <<>>)

(* Both calls made for a positive budget on a table of two or more         *)
(* ordinary workers that offer the capability, each above the budget.      *)
C21_Witness ==
    /\ mq.pc = "fallbacks" /\ mq.budget > 0 /\ Len(mq.rows) >= 2
    /\ Len(FindAvailableWorkers(mq.rows, mq.capability)) = Len(mq.rows)
    /\ \A i \in 1..Len(mq.rows) : MatchPrice(mq.rows[i].id) > mq.budget
    /\ mq.best = "none" /\ mq.fallbacks = <<>>

(* C22: under fastest the best worker is a surviving candidate of minimal  *)
(* avg_response_ms, under cheapest one of minimal price.                   *)
C22_FastestAndCheapest ==
    (mq.pc # "idle" /\ mq.pref \in {RoutingFastest, RoutingCheapest}) =>
        LET c == Survivors("none")
        IN  IF Len(c) = 0 THEN mq.best = "none"
            ELSE \E i \in 1..Len(c) :
                    /\ c[i].agent = mq.best
                    /\ \A j \in 1..Len(c) :
                          IF mq.pref = RoutingFastest
                          THEN c[i].avgResponseMs <= c[j].avgResponseMs
                          ELSE c[i].pricingPerTask <= c[j].pricingPerTask

(* FindBestWorker under fastest on three survivors of which the last in    *)
(* store order is the only fastest.                                        *)
C22_Witness ==
    /\ mq.pc = "best" /\ mq.pref = RoutingFastest
    /\ LET c == Survivors("none")
       IN  /\ Len(c) = 3 /\ mq.best = c[3].agent
           /\ c[3].avgResponseMs < c[1].avgResponseMs
           /\ c[3].avgResponseMs < c[2].avgResponseMs

(* The score a candidate list is ranked by, higher is better.              *)
RankKey(c) ==
    CASE routingPreference(mq.pref) = RoutingFastest  -> [i \in 1..Len(c) |-> -c[i].avgResponseMs]
      [] routingPreference(mq.pref) = RoutingCheapest -> [i \in 1..Len(c) |-> -c[i].pricingPerTask]
      [] OTHER                                        -> autoScores(c)

(* In the result `out`, ranked from the candidates c, every candidate that *)
(* ties with a returned one and precedes it in the store is returned       *)
(* before it.                                                              *)
TiesInStoreOrder(out, c) ==
    \A p \in 1..Len(out) : \A x \in 1..Len(c) : \A y \in 1..Len(c) :
        (c[y].agent = out[p] /\ x < y /\ RankKey(c)[x] = RankKey(c)[y])
        => \E p2 \in 1..(p - 1) : out[p2] = c[x].agent

(* C23: candidates with equal score are ranked in the order the store      *)
(* returned them, by FindBestWorker and by FindFallbacks.                  *)
C23_TiesKeepStoreOrder ==
    /\ mq.pc # "idle" /\ mq.best # "none" => TiesInStoreOrder(<<mq.best>>, Survivors("none"))
    /\ mq.pc = "fallbacks" => TiesInStoreOrder(mq.fallbacks, Survivors(mq.exclude))

(* What the insertion sort does give: ties stay in store order whenever    *)
(* at most 12 candidates survive the filters.                              *)
C23_FewCandidatesKeepStoreOrder ==
    /\ (mq.pc # "idle" /\ mq.best # "none" /\ Len(Survivors("none")) <= 12)
         => TiesInStoreOrder(<<mq.best>>, Survivors("none"))
    /\ (mq.pc = "fallbacks" /\ Len(Survivors(mq.exclude)) <= 12)
         => TiesInStoreOrder(mq.fallbacks, Survivors(mq.exclude))

(* SpecJobs: the HELD rows of escrow_holds and the queued execution jobs   *)
(* of a job, and the credits held for an account.                          *)
HeldFor(j)   == SelectSeq(escrow_holds, LAMBDA h : h.job = j /\ h.status = "HELD")
QueuedFor(j) == SelectSeq(river_job, LAMBDA q : q.job = j)
HeldOf(a) ==
    SumSeq([i \in 1..Len(SelectSeq(escrow_holds, LAMBDA h : h.requester = a /\ h.status = "HELD"))
              |-> SelectSeq(escrow_holds, LAMBDA h : h.requester = a /\ h.status = "HELD")[i].amount])

(* C24: in every state of the tables a job is ASSIGNED exactly when it has *)
(* one escrow hold of its agreed price and one queued execution job, and   *)
(* every account's balance and hold reflect exactly the holds placed; a    *)
(* job whose AssignAgent returned an error is OPEN with neither.           *)
C24_AssignmentAtomic ==
    /\ \A j \in JReqs :
          /\ jobs[j].status = "ASSIGNED" =>
                /\ Len(HeldFor(j)) = 1 /\ HeldFor(j)[1].amount = jobs[j].agreed
                /\ Len(QueuedFor(j)) = 1
          /\ jobs[j].status # "ASSIGNED" => Len(HeldFor(j)) = 0 /\ Len(QueuedFor(j)) = 0
          /\ (jreq[j].pc \in {"returned", "done"} /\ jreq[j].err \notin {"nil", "none"})
                => jobs[j].status = "OPEN"
    /\ \A a \in JAccounts :
          /\ accounts[a].hold_cents = HeldOf(a)
          /\ accounts[a].balance_cents = JobBalances[a] - HeldOf(a)

(* One request assigned and answered, the other rolled back for            *)
(* insufficient funds after its UpdateAssigned and answered OPEN.          *)
C24_Witness ==
    \E j \in JReqs, k \in JReqs :
        /\ jreq[j].pc = "done" /\ jreq[j].response = "ASSIGNED"
        /\ jreq[k].pc = "done" /\ jreq[k].err = "ErrInsufficientFunds"
        /\ jreq[k].response = "OPEN"

(* C25: every step that changes an account's balance is a ledger           *)
(* operation: it appends a ledger entry of that account.                   *)
C25_BalanceOnlyByLedger ==
    [][\A a \in Accounts :
          balance'[a] # balance[a] =>
             \E i \in (Len(ledger) + 1)..Len(ledger') : ledger'[i].account = a]_vars

(* The transitions of the task state diagram.                              *)
StateDiagram ==
    { <<TaskStatusMatching, TaskStatusDispatched>>,
      <<TaskStatusDispatched, TaskStatusInProgress>>,
      <<TaskStatusDispatched, TaskStatusMatching>>,
      <<TaskStatusMatching, TaskStatusFailed>>,
      <<TaskStatusInProgress, TaskStatusCompleted>>,
      <<TaskStatusInProgress, TaskStatusFailed>>,
      <<TaskStatusInProgress, TaskStatusMatching>> }

(* C26: every step that changes the status of the tasks row takes a        *)
(* transition of the state diagram.                                        *)
C26_OnlyDiagramTransitions ==
    [][(row # <<>> /\ row' # <<>> /\ row'[1].status # row[1].status)
          => <<row[1].status, row'[1].status>> \in StateDiagram]_vars

(* C27: a persisted actual_cost is at most the budget of the task.         *)
C27_ActualCostWithinBudget ==
    (row # <<>> /\ Row.actualCost # Null) => Row.actualCost[1] <= Row.budget

(* C29: the persisted retry_count is between 0 and maxRetries.             *)
C29_RetryCountBounded ==
    row # <<>> => (Row.retry >= 0 /\ Row.retry <= maxRetries)

(* C30: a row in dispatched or in_progress has a worker and a deadline.    *)
C30_ActiveTaskHasWorkerAndDeadline ==
    (row # <<>> /\ Row.status \in {TaskStatusDispatched, TaskStatusInProgress})
        => (Row.worker # "none" /\ Row.deadline)

(* SpecSettings: no LockCredits call and no settings request is pending.   *)
SettingsAtRest ==
    /\ \A p \in Lockers : lk[p].pc = "idle"
    /\ \A u \in SettingsReqs : su[u].pc \in {"idle", "done"}

(* C28: when no request is pending, every account's signed ledger entries  *)
(* add up to its balance minus its initial balance.                        *)
C28_LedgerMatchesBalances ==
    SettingsAtRest => \A a \in Accounts : LedgerSum(ledger, a) = balance[a] - initBal[a]

(* The same for the task lifecycle of Spec, which has no settings          *)
(* request: there the sums do match.                                       *)
C28_TaskLedgerMatchesBalances ==
    Quiescent => \A a \in Accounts : LedgerSum(ledger, a) = balance[a] - initBal[a]

(* A task in progress with its second worker, after one fallback.          *)
C30_Witness ==
    /\ row # <<>> /\ Row.status = TaskStatusInProgress /\ Row.retry >= 1
    /\ Row.worker # "none" /\ Row.deadline

(* The tasks row is the one a result callback wrote: completed or failed,  *)
(* with the output, actual cost and fee of that callback.                  *)
CallbackWroteRow ==
    \E c \in Callers :
        /\ cb[c].pc \in {"commit", "done"} /\ cb[c].task # Null
        /\ cb[c].task[1].status \in TerminalStatuses
        /\ row = Some(RowOf(cb[c].task[1]))

(* C31: a step of the dispatcher goroutine leaves a row written by a       *)
(* callback as it is, and adds no ledger entry once a callback has         *)
(* settled or refunded the task.                                           *)
C31_CallbackStateKept ==
    [][cb' = cb =>
          /\ CallbackWroteRow => row' = row
          /\ (\E c \in Callers : cb[c].resp = 200) => ledger' = ledger]_vars

(* The ledger entries that open or close the escrow of the task.           *)
EscrowEntries ==
    SelectSeq(ledger, LAMBDA e :
        /\ e.task = TheTask
        /\ e.kind \in {CreditEntryEscrowLock, CreditEntryEscrowRelease, CreditEntryRefund})

(* C32: the escrow_lock, escrow_release and refund entries of the task     *)
(* all belong to one account.                                              *)
C32_EscrowClosedOnDebitedAccount ==
    \A i \in 1..Len(EscrowEntries) : \A j \in 1..Len(EscrowEntries) :
        EscrowEntries[i].account = EscrowEntries[j].account

----------------------------------------------------------------------------
(* Claims over SpecLocks.                                                  *)

LockWaiting(x, y) ==
    /\ x # y
    /\ ltx[x].pc = "locking"
    /\ ltx[x].n < Len(ltx[x].ids)
    /\ ltx[x].ids[ltx[x].n + 1] \in RowsHeld(y)

(* C33: every transaction takes its account rows in ascending id order,    *)
(* and no set of running lock, settle and refund transactions waits for    *)
(* one another in a circle.                                                *)
C33_NoDeadlock ==
    /\ \A x \in LockTxs : \A i \in 1..Len(ltx[x].ids) : \A j \in i..Len(ltx[x].ids) :
           idString[ltx[x].ids[i]] <= idString[ltx[x].ids[j]]
    /\ \A S \in SUBSET LockTxs :
           S # {} => \E x \in S : \A y \in S : ~LockWaiting(x, y)

(* A settlement that holds the platform row waits for the row a lock or    *)
(* refund holds, while a second settlement waits for the platform row.     *)
C33_Witness ==
    \E x \in LockTxs, y \in LockTxs :
        /\ ltx[x].op = "SettleTask" /\ ltx[x].n >= 1
        /\ ltx[y].op \in {"LockCredits", "SettleError"}
        /\ LockWaiting(x, y)
        /\ \E z \in LockTxs \ {x, y} : ltx[z].op = "SettleTask" /\ LockWaiting(z, x)

----------------------------------------------------------------------------
(* Further claims over Spec.                                               *)

(* C34: for a task of budget 1 or more, every credit_ledger row a lock,    *)
(* settlement or refund has written carries a strictly positive amount,    *)
(* whatever cost the worker reported.                                      *)
C34_PositiveAmounts ==
    (hreq # Null /\ HReq.budget >= 1) =>
        \A i \in 1..Len(ledger) : ledger[i].amount > 0

(* C36: no dispatch POST of the task goes to a worker whose earlier POST    *)
(* for the task failed, by a non-2xx answer or a network error.            *)
C36_NoFailedWorkerAgain ==
    \A i \in 1..Len(posts) : \A j \in (i + 1)..Len(posts) :
        ~posts[i].ok => posts[j].worker # posts[i].worker

(* C37: a fallback selection made after the deadline expired ranks the     *)
(* candidates by the routing preference the task was submitted with.       *)
C37_PreferenceGovernsFallback ==
    (dpc = "findFallbacks" /\ dctx = "background") =>
        routingPreference(DTask.pref) = routingPreference(HReq.pref)

----------------------------------------------------------------------------
(* Further claims over SpecMatch.                                          *)

(* The agent is online, a worker, and its capabilities_offered mapping has *)
(* an entry for the capability of the task.                                *)
Advertises(id) ==
    /\ MatchRow(id).availability = "online"
    /\ MatchRow(id).role \in {"worker", "both"}
    /\ ~MatchRow(id).caps.null
    /\ mq.capability \in DOMAIN MatchRow(id).caps.price

(* C35: the best worker and every fallback is online, has role worker or   *)
(* both and advertises the capability of the task in capabilities_offered. *)
C35_SelectedAdvertises ==
    /\ mq.best # "none" => Advertises(mq.best)
    /\ \A i \in 1..Len(mq.fallbacks) : Advertises(mq.fallbacks[i])

----------------------------------------------------------------------------
(* Claims over SpecRestart.                                                *)

(* C38: a task that is in matching, dispatched or in_progress when a       *)
(* restart ends its pending dispatch or deadline watcher eventually is     *)
(* completed or failed, with a settlement or refund entry in the ledger.   *)
C38_RestartLosesNothing ==
    (restarted /\ dpc = "lost" /\ row # Null
       /\ Row.status \in {TaskStatusMatching, TaskStatusDispatched, TaskStatusInProgress})
    ~> (/\ row # Null /\ Row.status \in TerminalStatuses
        /\ \E i \in 1..Len(ledger) : ledger[i].kind # CreditEntryEscrowLock)

----------------------------------------------------------------------------
(* Claims over SpecExec.                                                   *)

(* The transactions that closed the hold of a job.                         *)
ClosingTxs(j) ==
    SelectSeq(transactions, LAMBDA t : t.job = j /\ t.tx_type \in {"ESCROW_RELEASE", "ESCROW_REFUND"})

(* C39: once a release or refund of a job's hold has been committed, every *)
(* later ReleaseEscrow or RefundEscrow for the job fails with no row found *)
(* and changes no account, transaction or hold; at most one closing        *)
(* transaction per job is ever written.                                    *)
C39_HoldClosedOnce ==
    [][\A j \in JReqs :
          /\ Len(ClosingTxs(j)) >= 1 /\ work'[j] # work[j] /\ work[j].pc = "escrow"
                => /\ work'[j].err = "ErrNoRows"
                   /\ accounts' = accounts /\ transactions' = transactions
                   /\ escrow_holds' = escrow_holds
          /\ Len(ClosingTxs(j)) >= 1 => ClosingTxs(j)' = ClosingTxs(j)]_vars

(* A release was committed while Work got an error back; River ran the job *)
(* again and the second MarkJobCompleted failed in ReleaseEscrow.          *)
C39_Witness ==
    \E j \in JReqs :
        /\ Len(ClosingTxs(j)) = 1 /\ ClosingTxs(j)[1].tx_type = "ESCROW_RELEASE"
        /\ work[j].attempt >= 2 /\ work[j].err = "ErrNoRows"
        /\ accounts["acc3"].balance_cents = ClosingTxs(j)[1].amount

====
